---------------------------- MODULE Spec2Model ----------------------------
(***************************************************************************)
(* Multi-tier adaptive cache engine of backend/services:                   *)
(*   cache_components.py        LRUCache (Tier 1), CacheStats              *)
(*   cache_operations.py        CacheOperations (Tier 2 Redis, Tier 3 DB)  *)
(*   advanced_cache_service.py  AdvancedCacheService (orchestration)       *)
(*                                                                         *)
(* Time is in seconds (datetime.now()).  Keys are character sequences.     *)
(* Python's None is the string "None"; cached values are never None (a     *)
(* None value is indistinguishable from a miss in get).                    *)
(***************************************************************************)
EXTENDS Integers, Sequences, FiniteSets, TLC

VARIABLES
    l1,              \* LRUCache.cache: OrderedDict as a sequence of CacheEntry, oldest first
    max_size,        \* LRUCache.max_size
    l2,              \* Redis keyspace: key -> [value (JSON), expires_at]
    l3,              \* cache_entries table: sequence of rows in id order
    access_patterns, \* AdvancedCacheService.access_patterns (defaultdict)
    stats,           \* AdvancedCacheService.stats (CacheStats)
    l2_enabled,      \* AdvancedCacheService.l2_enabled
    l3_enabled,      \* AdvancedCacheService.l3_enabled
    redis_up,        \* environment: the Redis server answers
    db_up,           \* environment: the database answers
    now,             \* environment: datetime.now()
    budget,          \* steps left in the run (bounds the counters and the clock)
    touched,         \* history: keys in order of their last Tier 1 touch, oldest first
    last,            \* history: the last completed operation and what it observed
    written,         \* history: per key, the call that wrote the entry Tier 1 holds for it
    thr,             \* per-thread position and locals (concurrent specification)
    calc,            \* calculator specification: inputs and outputs of the last calls
    advanced_cache_service, \* module global _advanced_cache_service: 0 (None) or an instance
    async_cache_service,    \* module global _async_cache_service: 0 (None) or a wrapper
    instances,       \* the AdvancedCacheService objects constructed so far
    wrappers,        \* the AsyncCacheService objects constructed so far
    lock,            \* LRUCache.lock: the thread that holds it, or None
    od_state,        \* OrderedDict modification counter of LRUCache.cache
    stats_lock,      \* AdvancedCacheService.stats_lock: the thread that holds it, or None
    patterns_lock,   \* AdvancedCacheService.patterns_lock: its holder, or None
    l3_cache_enabled \* environment: L3_CACHE_ENABLED is "true" (the default)

\* the module globals, the objects behind them and the Tier 1 lock
process == << advanced_cache_service, async_cache_service, instances, wrappers,
             lock, od_state, stats_lock, patterns_lock, l3_cache_enabled >>

vars == << l1, max_size, l2, l3, access_patterns, stats, l2_enabled, l3_enabled,
           redis_up, db_up, now, budget, touched, last, written, thr, calc, process >>

---------------------------------------------------------------------------
(* Configuration: module-level constants of advanced_cache_service.py.     *)

L1_DEFAULT_TTL == 300
L2_DEFAULT_TTL == 3600
L3_DEFAULT_TTL == 86400
MIN_TTL == 60
MAX_TTL == 86400
\* TTL_MULTIPLIER = 1.5 as the ratio 3/2
TTL_MULTIPLIER_NUM == 3
TTL_MULTIPLIER_DEN == 2
ADAPTIVE_TTL_ENABLED == TRUE
\* L3_ENABLED = os.getenv("L3_CACHE_ENABLED", "true").lower() == "true"
L3_ENABLED == l3_cache_enabled
CACHE_WARMING_ENABLED == TRUE
\* _generate_key hashes a key string longer than this
KEY_HASH_THRESHOLD == 200

---------------------------------------------------------------------------
(* Bounds of the model.                                                    *)

\* L1_CACHE_SIZE: the largest Tier 1 capacity configured
MaxCapacity == 2
\* engine operations and environment steps in one run
MaxOps == 4
\* Entry Store operations in one run
MaxStoreOps == 3
\* WARMING_TOP_N (100 in the configuration), scaled to the number of keys
WARMING_TOP_N == 2
\* the largest access_count a key is driven to
MaxCount == 12
\* operations the caller thread issues, gets of the other thread, passes of the
\* warming worker and clock advances in one concurrent run
MaxCallerOps == 3
MaxReads == 1
MaxWarmPasses == 1
MaxConcTicks == 1
\* operations in one run of the engine with the wide range of set TTLs
MaxSetOps == 3
\* operations in one run of the engine under pattern invalidation
MaxInvOps == 4
\* operations in one run of the engine with generated keys
MaxKeyOps == 3
\* operations in one run of the engine under warming
MaxWarmOps == 5
\* accessor calls per thread
MaxAccessorCalls == 2
\* calls started in one run of the Tier 1 lock specification
MaxLockOps == 4
\* operations per thread in the lock-order specification
MaxLockCalls == 1
\* writes in one run of the sweep specification, and intervals the clock runs for
MaxSweepOps == 3
MaxSweepTicks == 2
\* operations in one run of the promotion specification
MaxPromoteOps == 9
\* calls in one run of the Tier 3 adapter specification
MaxL3Ops == 4

None == "None"

\* no accessor has been called and no thread holds the Tier 1 lock
NoObjects ==
    /\ advanced_cache_service = 0
    /\ async_cache_service = 0
    /\ instances = << >>
    /\ wrappers = << >>
    /\ lock = None
    /\ od_state = 0
    /\ stats_lock = None
    /\ patterns_lock = None

\* a process started with the default configuration
ProcessIdle ==
    /\ NoObjects
    /\ l3_cache_enabled = TRUE

NoTime == -1

Keys == { <<"e", "x">>, <<"o", "x">> }
StoreKeys == { <<"a">>, <<"b">>, <<"c">> }
\* "tup" is a Python tuple: JSON has no tuples, it comes back as the list "lst"
Values == { "v1", "tup" }
\* (value, ttl) arguments of set; ttl 0 stands for ttl=None (both are falsy in
\* `ttl or L2_DEFAULT_TTL`)
SetArgs == { << "v1", 600 >>, << "tup", 120 >>, << "v1", 0 >> }
TickSteps == { 100, 400, 90000 }

---------------------------------------------------------------------------
(* Generic helpers.                                                        *)

Min(a, b) == IF a < b THEN a ELSE b
Max(a, b) == IF a > b THEN a ELSE b

\* Python int(x) of the rational n/d, d > 0: truncation toward zero
IntTrunc(n, d) == IF n >= 0 THEN n \div d ELSE -((-n) \div d)

\* json.dumps / json.loads: the stored text, and what it parses to
JsonDumps(v) == [json |-> IF v = "tup" THEN "lst" ELSE v]
JsonLoads(s) == s.json

SeqKeys(cache) == { cache[i].key : i \in 1..Len(cache) }
HasKey(cache, k) == k \in SeqKeys(cache)
IndexOf(cache, k) == CHOOSE i \in 1..Len(cache) : cache[i].key = k
EntryOf(cache, k) == cache[IndexOf(cache, k)]
RemoveKey(cache, k) == SelectSeq(cache, LAMBDA e : e.key # k)

\* history bookkeeping of Tier 1 touches (not program state)
Touch(order, k) == SelectSeq(order, LAMBDA x : x # k) \o << k >>

---------------------------------------------------------------------------
(* Entry Store (Tier 1): LRUCache.                                         *)

\* LRUCache.get: [cache, value]; an expired entry is deleted and reported absent,
\* a live one moves to the end and has its access statistics updated
L1GetNoExpiry(cache, k, t) ==
    IF ~HasKey(cache, k) THEN [cache |-> cache, value |-> None]
    ELSE LET e == EntryOf(cache, k)
         IN [cache |-> RemoveKey(cache, k) \o
                         << [e EXCEPT !.access_count = @ + 1, !.last_accessed = t] >>,
             value |-> e.value]

L1Get(cache, k, t) ==
    IF ~HasKey(cache, k) THEN [cache |-> cache, value |-> None]
    ELSE LET e == EntryOf(cache, k)
         IN IF t > e.expires_at
            THEN [cache |-> RemoveKey(cache, k), value |-> None]
            ELSE [cache |-> RemoveKey(cache, k) \o
                              << [e EXCEPT !.access_count = @ + 1, !.last_accessed = t] >>,
                  value |-> e.value]

\* a set that never evicts
EvictNothing(cache, cap) == cache

\* the eviction loop of LRUCache.set: drop the first item while at capacity
RECURSIVE EvictLoop(_, _)
EvictLoop(cache, cap) ==
    IF Len(cache) >= cap /\ Len(cache) > 0
    THEN EvictLoop(Tail(cache), cap)
    ELSE cache

\* CacheEntry built without its ttl: expires_at = created_at
NewEntryNoTTL(k, v, ttl, ct, t) ==
    [key |-> k, value |-> v, created_at |-> t, expires_at |-> t,
     access_count |-> 0, last_accessed |-> t, cache_type |-> ct, ttl |-> ttl]

\* CacheEntry as LRUCache.set builds it
NewEntry(k, v, ttl, ct, t) ==
    [key |-> k, value |-> v, created_at |-> t, expires_at |-> t + ttl,
     access_count |-> 0, last_accessed |-> t, cache_type |-> ct, ttl |-> ttl]

\* LRUCache.set: the new cache (the method always returns True)
L1SetEvictNewest(cache, cap, k, v, ttl, ct, t) ==
    LET c1 == RemoveKey(cache, k)
        c2 == IF Len(c1) >= cap /\ Len(c1) > 0
              THEN SubSeq(c1, 1, Len(c1) - 1) ELSE c1
    IN c2 \o << NewEntry(k, v, ttl, ct, t) >>

L1Set(cache, cap, k, v, ttl, ct, t) ==
    EvictLoop(RemoveKey(cache, k), cap) \o << NewEntry(k, v, ttl, ct, t) >>

\* LRUCache.delete: [cache, ok]
L1Delete(cache, k) ==
    IF HasKey(cache, k) THEN [cache |-> RemoveKey(cache, k), ok |-> TRUE]
    ELSE [cache |-> cache, ok |-> FALSE]

\* LRUCache.clear: [cache, count]
L1Clear(cache) == [cache |-> << >>, count |-> Len(cache)]


---------------------------------------------------------------------------
(* Adaptive TTL Calculator and Access Pattern Tracker.                     *)

Clamp(x) == Max(MIN_TTL, Min(MAX_TTL, x))

\* the arithmetic of _calculate_adaptive_ttl for a recorded access_count
AdaptiveTTLNoClamp(access_count, base_ttl) ==
    IF ~ADAPTIVE_TTL_ENABLED THEN base_ttl
    ELSE IF access_count > 10
         THEN IntTrunc(base_ttl * TTL_MULTIPLIER_NUM * 2, TTL_MULTIPLIER_DEN)
         ELSE IF access_count > 5
              THEN IntTrunc(base_ttl * TTL_MULTIPLIER_NUM, TTL_MULTIPLIER_DEN)
              ELSE base_ttl

AdaptiveTTLSwapped(access_count, base_ttl) ==
    IF ~ADAPTIVE_TTL_ENABLED THEN base_ttl
    ELSE Clamp(IF access_count > 10
               THEN IntTrunc(base_ttl * TTL_MULTIPLIER_NUM, TTL_MULTIPLIER_DEN)
               ELSE IF access_count > 5
                    THEN IntTrunc(base_ttl * TTL_MULTIPLIER_NUM * 2, TTL_MULTIPLIER_DEN)
                    ELSE base_ttl)

AdaptiveTTL(access_count, base_ttl) ==
    IF ~ADAPTIVE_TTL_ENABLED THEN base_ttl
    ELSE Clamp(IF access_count > 10
               THEN IntTrunc(base_ttl * TTL_MULTIPLIER_NUM * 2, TTL_MULTIPLIER_DEN)
               ELSE IF access_count > 5
                    THEN IntTrunc(base_ttl * TTL_MULTIPLIER_NUM, TTL_MULTIPLIER_DEN)
                    ELSE base_ttl)

\* access_patterns[key] on the defaultdict: a key never seen gets the default record
DefaultPattern == [access_count |-> 0, last_accessed |-> NoTime]
PatternsLookup(p, k) == IF k \in DOMAIN p THEN p ELSE (k :> DefaultPattern) @@ p

\* _calculate_adaptive_ttl(key, base_ttl, cache_type): [patterns, ttl]
CalculateAdaptiveTTL(p, k, base_ttl) ==
    IF ~ADAPTIVE_TTL_ENABLED THEN [patterns |-> p, ttl |-> base_ttl]
    ELSE LET q == PatternsLookup(p, k)
         IN [patterns |-> q, ttl |-> AdaptiveTTL(q[k].access_count, base_ttl)]

\* an update that counts the access twice
UpdateAccessPatternTwice(p, k, t) ==
    LET q == PatternsLookup(p, k)
    IN [q EXCEPT ![k] = [access_count |-> @.access_count + 2, last_accessed |-> t]]

\* _update_access_pattern(key, cache_type)
UpdateAccessPattern(p, k, t) ==
    LET q == PatternsLookup(p, k)
    IN [q EXCEPT ![k] = [access_count |-> @.access_count + 1, last_accessed |-> t]]

---------------------------------------------------------------------------
(* Network Store (Tier 2): the Redis server and the CacheOperations        *)
(* adapters.  A backend call answers [exc, ...]; exc is a raised exception.*)

L2Live(store, k, t) == k \in DOMAIN store /\ t < store[k].expires_at

\* set_to_l2: json.dumps, redis setex (a non-positive expire time is an error)
SetToL2(store, k, v, ttl, t, up) ==
    IF up /\ ttl > 0
    THEN [store |-> (k :> [value |-> JsonDumps(v), expires_at |-> t + ttl]) @@ store,
          ok |-> TRUE, failed |-> FALSE, raised |-> FALSE]
    ELSE [store |-> store, ok |-> FALSE, failed |-> TRUE, raised |-> FALSE]

\* get_from_l2 with its try/except removed
GetFromL2Unguarded(store, k, t, up) ==
    IF ~up THEN [value |-> None, failed |-> TRUE, raised |-> TRUE]
    ELSE IF L2Live(store, k, t)
         THEN [value |-> JsonLoads(store[k].value), failed |-> FALSE, raised |-> FALSE]
         ELSE [value |-> None, failed |-> FALSE, raised |-> FALSE]

\* get_from_l2: redis get, json.loads
GetFromL2(store, k, t, up) ==
    IF ~up THEN [value |-> None, failed |-> TRUE, raised |-> FALSE]
    ELSE IF L2Live(store, k, t)
         THEN [value |-> JsonLoads(store[k].value), failed |-> FALSE, raised |-> FALSE]
         ELSE [value |-> None, failed |-> FALSE, raised |-> FALSE]

DropKeys(store, ks) == [k \in DOMAIN store \ ks |-> store[k]]

\* delete_from_l2: True whether or not the key existed
DeleteFromL2(store, k, up) ==
    IF up THEN [store |-> DropKeys(store, {k}), ok |-> TRUE, failed |-> FALSE, raised |-> FALSE]
    ELSE [store |-> store, ok |-> FALSE, failed |-> TRUE, raised |-> FALSE]

\* wildcard matching of a whole string: `many` stands for any run of characters,
\* `one` for any one character. The pattern is cut at its `many` characters into
\* literal segments; the first is anchored at the start, the last at the end,
\* and the others are found in order in between.
ManyAt(pat, many) == { i \in 1..Len(pat) : pat[i] = many }
NthOf(S, n) == CHOOSE i \in S : Cardinality({ x \in S : x < i }) = n - 1
Segments(pat, many) ==
    LET at == ManyAt(pat, many)
        n == Cardinality(at)
        cut(j) == IF j = 0 THEN 0 ELSE IF j = n + 1 THEN Len(pat) + 1 ELSE NthOf(at, j)
    IN [j \in 1..(n + 1) |-> SubSeq(pat, cut(j - 1) + 1, cut(j) - 1)]
SegmentAt(seg, s, i, one) ==
    /\ i >= 1
    /\ i + Len(seg) - 1 <= Len(s)
    /\ \A j \in 1..Len(seg) : seg[j] = one \/ seg[j] = s[i + j - 1]
RECURSIVE SegmentsFrom(_, _, _, _)
SegmentsFrom(segs, s, from, one) ==
    IF Len(segs) = 1
    THEN LET i == Len(s) - Len(segs[1]) + 1
         IN i >= from /\ SegmentAt(segs[1], s, i, one)
    ELSE \E i \in from..(Len(s) + 1) :
            /\ SegmentAt(segs[1], s, i, one)
            /\ SegmentsFrom(Tail(segs), s, i + Len(segs[1]), one)
WildMatch(pat, s, many, one) ==
    LET segs == Segments(pat, many)
    IN IF Len(segs) = 1
       THEN Len(s) = Len(pat) /\ SegmentAt(pat, s, 1, one)
       ELSE /\ SegmentAt(segs[1], s, 1, one)
            /\ SegmentsFrom(Tail(segs), s, 1 + Len(segs[1]), one)

\* Redis glob matching (KEYS pattern): * any run, ? any one character
GlobMatch(pat, s) == WildMatch(pat, s, "*", "?")

\* invalidate_pattern_l2: keys("*pattern*") then delete(*keys)
InvalidatePatternL2(store, pattern, t, up) ==
    IF ~up THEN [store |-> store, count |-> 0, failed |-> TRUE, raised |-> FALSE]
    ELSE LET ks == { k \in DOMAIN store :
                       L2Live(store, k, t) /\ GlobMatch(<<"*">> \o pattern \o <<"*">>, k) }
         IN [store |-> DropKeys(store, ks), count |-> Cardinality(ks),
             failed |-> FALSE, raised |-> FALSE]

---------------------------------------------------------------------------
(* Persistent Store (Tier 3): the cache_entries table and the adapters.    *)

RowIdx(rows, k) == { i \in 1..Len(rows) : rows[i].cache_key = k }
\* a query without the expires_at filter
AnyRowIdx(rows, k, t) == RowIdx(rows, k)
LiveRowIdx(rows, k, t) == { i \in RowIdx(rows, k) : rows[i].expires_at > t }
FirstOf(S) == CHOOSE i \in S : \A j \in S : i <= j

\* set_to_l3 with its try/except removed
SetToL3Unguarded(rows, k, v, ttl, ct, t, up) ==
    IF ~up THEN [rows |-> rows, ok |-> FALSE, failed |-> TRUE, raised |-> TRUE]
    ELSE IF RowIdx(rows, k) # {}
         THEN [rows |-> [rows EXCEPT ![FirstOf(RowIdx(rows, k))] =
                           [@ EXCEPT !.cache_value = JsonDumps(v),
                                     !.expires_at = t + ttl,
                                     !.access_count = @ + 1,
                                     !.last_accessed = t]],
               ok |-> TRUE, failed |-> FALSE, raised |-> FALSE]
         ELSE [rows |-> Append(rows, [cache_key |-> k, cache_value |-> JsonDumps(v),
                                      cache_type |-> ct, expires_at |-> t + ttl,
                                      access_count |-> 1, last_accessed |-> t]),
               ok |-> TRUE, failed |-> FALSE, raised |-> FALSE]

\* set_to_l3: update the existing row or insert one; a failure rolls back
SetToL3(rows, k, v, ttl, ct, t, up) ==
    IF ~up THEN [rows |-> rows, ok |-> FALSE, failed |-> TRUE, raised |-> FALSE]
    ELSE IF RowIdx(rows, k) # {}
         THEN [rows |-> [rows EXCEPT ![FirstOf(RowIdx(rows, k))] =
                           [@ EXCEPT !.cache_value = JsonDumps(v),
                                     !.expires_at = t + ttl,
                                     !.access_count = @ + 1,
                                     !.last_accessed = t]],
               ok |-> TRUE, failed |-> FALSE, raised |-> FALSE]
         ELSE [rows |-> Append(rows, [cache_key |-> k, cache_value |-> JsonDumps(v),
                                      cache_type |-> ct, expires_at |-> t + ttl,
                                      access_count |-> 1, last_accessed |-> t]),
               ok |-> TRUE, failed |-> FALSE, raised |-> FALSE]

\* get_from_l3 that inserts a fresh row for the access instead of updating
GetFromL3Duplicating(rows, k, t, up) ==
    IF ~up THEN [rows |-> rows, value |-> None, failed |-> TRUE, raised |-> FALSE]
    ELSE IF LiveRowIdx(rows, k, t) # {}
         THEN LET i == FirstOf(LiveRowIdx(rows, k, t))
              IN [rows |-> Append(rows, [rows[i] EXCEPT !.access_count = @ + 1,
                                                        !.last_accessed = t]),
                  value |-> JsonLoads(rows[i].cache_value),
                  failed |-> FALSE, raised |-> FALSE]
         ELSE [rows |-> rows, value |-> None, failed |-> FALSE, raised |-> FALSE]

\* get_from_l3: the first row with the key and expires_at > now; a hit
\* persists access_count + 1 and last_accessed
GetFromL3(rows, k, t, up) ==
    IF ~up THEN [rows |-> rows, value |-> None, failed |-> TRUE, raised |-> FALSE]
    ELSE IF LiveRowIdx(rows, k, t) # {}
         THEN LET i == FirstOf(LiveRowIdx(rows, k, t))
              IN [rows |-> [rows EXCEPT ![i] = [@ EXCEPT !.access_count = @ + 1,
                                                         !.last_accessed = t]],
                  value |-> JsonLoads(rows[i].cache_value),
                  failed |-> FALSE, raised |-> FALSE]
         ELSE [rows |-> rows, value |-> None, failed |-> FALSE, raised |-> FALSE]

\* delete_from_l3
DeleteFromL3(rows, k, up) ==
    IF ~up THEN [rows |-> rows, ok |-> FALSE, failed |-> TRUE, raised |-> FALSE]
    ELSE [rows |-> SelectSeq(rows, LAMBDA r : r.cache_key # k),
          ok |-> TRUE, failed |-> FALSE, raised |-> FALSE]

\* SQL LIKE without an escape: % any run, _ any one character
LikeMatch(pat, s) == WildMatch(pat, s, "%", "_")

\* invalidate_pattern_l3: delete where cache_key LIKE %pattern%
InvalidatePatternL3(rows, pattern, up) ==
    IF ~up THEN [rows |-> rows, count |-> 0, failed |-> TRUE, raised |-> FALSE]
    ELSE LET hit(r) == LikeMatch(<<"%">> \o pattern \o <<"%">>, r.cache_key)
         IN [rows |-> SelectSeq(rows, LAMBDA r : ~hit(r)),
             count |-> Len(SelectSeq(rows, hit)),
             failed |-> FALSE, raised |-> FALSE]


\* a warming query that counts an access on the rows it returns
WarmQueryTouching(rows, top) ==
    [i \in 1..Len(rows) |->
        IF \E j \in 1..Len(top) : top[j] = i
        THEN [rows[i] EXCEPT !.access_count = @ + 1] ELSE rows[i]]

\* the table after warm_cache's query returned the rows `top`: the query only
\* selects, and warm_cache neither changes the rows nor commits
WarmQueryRows(rows, top) == rows

\* warm_cache's query: the non-expired rows by access_count descending, at most
\* n of them; the database orders rows of equal access_count either way
TopItems(rows, t, n) ==
    LET live == { i \in 1..Len(rows) : rows[i].expires_at > t }
        m == Min(n, Cardinality(live))
    IN { s \in [1..m -> live] :
           /\ \A i, j \in 1..m : i < j =>
                 (s[i] # s[j] /\ rows[s[i]].access_count >= rows[s[j]].access_count)
           /\ \A j \in live : (\A i \in 1..m : s[i] # j) =>
                 (\A i \in 1..m : rows[s[i]].access_count >= rows[j].access_count) }

\* a loop that stops after the first queried row
WarmItemsFirstOnly(items, cache, cap, store, l2on, t, up, n) ==
    IF items = << >> THEN [l1 |-> cache, l2 |-> store, count |-> n]
    ELSE LET item == Head(items)
             value == JsonLoads(item.cache_value)
         IN [l1 |-> L1Set(cache, cap, item.cache_key, value, L1_DEFAULT_TTL,
                          item.cache_type, t),
             l2 |-> IF l2on
                    THEN SetToL2(store, item.cache_key, value, L2_DEFAULT_TTL, t, up).store
                    ELSE store,
             count |-> n + 1]

\* the loop of warm_cache over the queried rows: [l1, l2, count]
RECURSIVE WarmItems(_, _, _, _, _, _, _, _)
WarmItems(items, cache, cap, store, l2on, t, up, n) ==
    IF items = << >> THEN [l1 |-> cache, l2 |-> store, count |-> n]
    ELSE LET item == Head(items)
             value == JsonLoads(item.cache_value)
             c1 == L1Set(cache, cap, item.cache_key, value, L1_DEFAULT_TTL, item.cache_type, t)
             s1 == IF l2on
                   THEN SetToL2(store, item.cache_key, value, L2_DEFAULT_TTL, t, up).store
                   ELSE store
         IN WarmItems(Tail(items), c1, cap, s1, l2on, t, up, n + 1)

---------------------------------------------------------------------------
(* Orchestration: AdvancedCacheService.get / set / delete /                *)
(* invalidate_pattern / warm_cache_now, each computed from the current     *)
(* state as the record of what it leaves behind and returns.               *)

L1 == "l1"
L2 == "l2"
L3 == "l3"
Raised == "Raised"

\* keys a Tier 1 set of k pushed out by capacity
Evicted(before, k, after) == SeqKeys(before) \ (SeqKeys(after) \cup {k})

L1Found(cache, k, t) ==
    IF ~HasKey(cache, k) THEN "absent"
    ELSE IF t > EntryOf(cache, k).expires_at THEN "expired" ELSE "live"

\* AdvancedCacheService.get(key, cache_type)
GetOutcome(k, ct) ==
    LET r1 == L1Get(l1, k, now)
        base == [l1 |-> r1.cache, l2 |-> l2, l3 |-> l3, patterns |-> access_patterns,
                 stats |-> stats, result |-> None, served |-> "none", calls |-> {L1},
                 failed |-> {}, raised |-> FALSE, evicted |-> {},
                 l1_found |-> L1Found(l1, k, now)]
    IN IF r1.value # None
       THEN [base EXCEPT !.stats = [stats EXCEPT !.hits = @ + 1, !.l1_hits = @ + 1],
                         !.patterns = UpdateAccessPattern(access_patterns, k, now),
                         !.result = r1.value, !.served = L1]
       ELSE
       LET st1 == [stats EXCEPT !.l1_misses = @ + 1]
           r2 == IF l2_enabled THEN GetFromL2(l2, k, now, redis_up)
                 ELSE [value |-> None, failed |-> FALSE, raised |-> FALSE]
           calls2 == IF l2_enabled THEN {L1, L2} ELSE {L1}
           failed2 == IF r2.failed THEN {L2} ELSE {}
       IN IF r2.raised
          THEN [base EXCEPT !.stats = st1, !.calls = calls2, !.failed = failed2,
                            !.result = Raised, !.raised = TRUE]
          ELSE IF r2.value # None
          THEN LET c == CalculateAdaptiveTTL(access_patterns, k, L1_DEFAULT_TTL)
                   c1 == L1Set(r1.cache, max_size, k, r2.value, c.ttl, ct, now)
               IN [base EXCEPT !.l1 = c1,
                               !.stats = [st1 EXCEPT !.hits = @ + 1, !.l2_hits = @ + 1],
                               !.patterns = UpdateAccessPattern(c.patterns, k, now),
                               !.result = r2.value, !.served = L2, !.calls = calls2,
                               !.evicted = Evicted(r1.cache, k, c1)]
          ELSE
          LET st2 == [st1 EXCEPT !.l2_misses = @ + 1]
              r3 == IF l3_enabled THEN GetFromL3(l3, k, now, db_up)
                    ELSE [rows |-> l3, value |-> None, failed |-> FALSE, raised |-> FALSE]
              calls3 == IF l3_enabled THEN calls2 \cup {L3} ELSE calls2
              failed3 == IF r3.failed THEN failed2 \cup {L3} ELSE failed2
          IN IF r3.raised
             THEN [base EXCEPT !.stats = st2, !.calls = calls3, !.failed = failed3,
                               !.result = Raised, !.raised = TRUE]
             ELSE IF r3.value # None
             THEN LET ca == CalculateAdaptiveTTL(access_patterns, k, L1_DEFAULT_TTL)
                      cb == CalculateAdaptiveTTL(ca.patterns, k, L2_DEFAULT_TTL)
                      c1 == L1Set(r1.cache, max_size, k, r3.value, ca.ttl, ct, now)
                      w2 == IF l2_enabled
                            THEN SetToL2(l2, k, r3.value, cb.ttl, now, redis_up)
                            ELSE [store |-> l2, ok |-> TRUE, failed |-> FALSE,
                                  raised |-> FALSE]
                  IN [base EXCEPT !.l1 = c1, !.l2 = w2.store, !.l3 = r3.rows,
                                  !.stats = [st2 EXCEPT !.hits = @ + 1, !.l3_hits = @ + 1],
                                  !.patterns = UpdateAccessPattern(cb.patterns, k, now),
                                  !.result = r3.value, !.served = L3, !.calls = calls3,
                                  !.failed = IF w2.failed THEN failed3 \cup {L2}
                                             ELSE failed3,
                                  !.evicted = Evicted(r1.cache, k, c1)]
             ELSE [base EXCEPT !.l3 = r3.rows,
                               !.stats = [st2 EXCEPT !.misses = @ + 1, !.l3_misses = @ + 1],
                               !.calls = calls3, !.failed = failed3]

\* levels=None of set: every level that is enabled
DefaultSetLevels ==
    {L1} \cup (IF l2_enabled THEN {L2} ELSE {}) \cup (IF l3_enabled THEN {L3} ELSE {})

\* set writing Tier 1 with the adaptive TTL as it is
SetL1TTLUncapped(adaptive_ttl) == adaptive_ttl

\* the Tier 1 TTL that set derives from the adaptive TTL
SetL1TTL(adaptive_ttl) ==
    IF adaptive_ttl < L1_DEFAULT_TTL * 2 THEN adaptive_ttl ELSE L1_DEFAULT_TTL

\* set writing Tier 3 with the Tier 3 default TTL always
SetL3TTLDefault(adaptive_ttl) == L3_DEFAULT_TTL

\* the Tier 3 TTL that set derives from the adaptive TTL
SetL3TTL(adaptive_ttl) ==
    IF adaptive_ttl > L2_DEFAULT_TTL THEN adaptive_ttl ELSE L3_DEFAULT_TTL

\* AdvancedCacheService.set(key, value, ttl, cache_type, levels)
SetOutcome(k, v, ttl, ct, levels) ==
    LET base_ttl == IF ttl # 0 THEN ttl ELSE L2_DEFAULT_TTL
        c == CalculateAdaptiveTTL(access_patterns, k, base_ttl)
        doL1 == L1 \in levels
        doL2 == L2 \in levels /\ l2_enabled
        doL3 == L3 \in levels /\ l3_enabled
        c1 == IF doL1 THEN L1Set(l1, max_size, k, v, SetL1TTL(c.ttl), ct, now) ELSE l1
        ok1 == TRUE
        w2 == IF doL2 THEN SetToL2(l2, k, v, c.ttl, now, redis_up)
              ELSE [store |-> l2, ok |-> TRUE, failed |-> FALSE, raised |-> FALSE]
        ok2 == IF doL2 THEN w2.ok /\ ok1 ELSE ok1
        w3 == IF doL3 THEN SetToL3(l3, k, v, SetL3TTL(c.ttl), ct, now, db_up)
              ELSE [rows |-> l3, ok |-> TRUE, failed |-> FALSE, raised |-> FALSE]
        ok3 == IF doL3 THEN w3.ok /\ ok2 ELSE ok2
        anyRaised == w2.raised \/ w3.raised
    IN [l1 |-> c1, l2 |-> w2.store, l3 |-> w3.rows, patterns |-> c.patterns,
        stats |-> IF ok3 /\ ~anyRaised THEN [stats EXCEPT !.sets = @ + 1] ELSE stats,
        result |-> IF anyRaised THEN Raised ELSE IF ok3 THEN "True" ELSE "False",
        raised |-> anyRaised,
        calls |-> (IF doL1 THEN {L1} ELSE {}) \cup (IF doL2 THEN {L2} ELSE {})
                    \cup (IF doL3 THEN {L3} ELSE {}),
        failed |-> (IF w2.failed THEN {L2} ELSE {}) \cup (IF w3.failed THEN {L3} ELSE {}),
        evicted |-> IF doL1 THEN Evicted(l1, k, c1) ELSE {},
        l1_ttl |-> SetL1TTL(c.ttl), base_ttl |-> base_ttl]

AllLevels == {L1, L2, L3}

\* delete leaving Tier 3 enabled whatever its Tier 3 step returned
DeleteBreakerOff(attempted, ok) == l3_enabled

\* l3_enabled after delete: a failed Tier 3 step disables Tier 3
DeleteBreaker(attempted, ok) == IF attempted /\ ~ok THEN FALSE ELSE l3_enabled

\* AdvancedCacheService.delete(key, levels)
DeleteOutcome(k, levels) ==
    LET d1 == IF L1 \in levels THEN L1Delete(l1, k) ELSE [cache |-> l1, ok |-> TRUE]
        doL2 == L2 \in levels /\ l2_enabled
        doL3 == L3 \in levels /\ l3_enabled
        d2 == IF doL2 THEN DeleteFromL2(l2, k, redis_up)
              ELSE [store |-> l2, ok |-> TRUE, failed |-> FALSE, raised |-> FALSE]
        d3 == IF doL3 THEN DeleteFromL3(l3, k, db_up)
              ELSE [rows |-> l3, ok |-> TRUE, failed |-> FALSE, raised |-> FALSE]
        anyRaised == d2.raised \/ d3.raised
    IN [l1 |-> d1.cache, l2 |-> d2.store, l3 |-> d3.rows,
        l3_enabled |-> DeleteBreaker(doL3, d3.ok),
        result |-> IF anyRaised THEN Raised
                   ELSE IF d1.ok /\ d2.ok /\ d3.ok THEN "True" ELSE "False",
        raised |-> anyRaised,
        calls |-> (IF L1 \in levels THEN {L1} ELSE {}) \cup (IF doL2 THEN {L2} ELSE {})
                    \cup (IF doL3 THEN {L3} ELSE {}),
        failed |-> (IF d2.failed THEN {L2} ELSE {}) \cup (IF d3.failed THEN {L3} ELSE {})]

\* `k.startswith(pattern)` in place of `pattern in k`
IsPrefixOf(p, k) == Len(p) <= Len(k) /\ SubSeq(k, 1, Len(p)) = p

\* Python's `pattern in k` on strings
IsSubstring(p, k) ==
    \E i \in 1..(Len(k) + 1) : i + Len(p) - 1 <= Len(k) /\ SubSeq(k, i, i + Len(p) - 1) = p

\* AdvancedCacheService.invalidate_pattern(pattern, levels)
InvalidateOutcome(p, levels) ==
    LET hit1 == IF L1 \in levels THEN { k \in SeqKeys(l1) : IsSubstring(p, k) } ELSE {}
        c1 == SelectSeq(l1, LAMBDA e : e.key \notin hit1)
        doL2 == L2 \in levels /\ l2_enabled
        doL3 == L3 \in levels /\ l3_enabled
        i2 == IF doL2 THEN InvalidatePatternL2(l2, p, now, redis_up)
              ELSE [store |-> l2, count |-> 0, failed |-> FALSE, raised |-> FALSE]
        i3 == IF doL3 THEN InvalidatePatternL3(l3, p, db_up)
              ELSE [rows |-> l3, count |-> 0, failed |-> FALSE, raised |-> FALSE]
        anyRaised == i2.raised \/ i3.raised
    IN [l1 |-> c1, l2 |-> i2.store, l3 |-> i3.rows,
        l3_enabled |-> IF doL3 /\ i3.count = 0 THEN FALSE ELSE l3_enabled,
        count |-> Cardinality(hit1) + i2.count + i3.count,
        removed |-> [l1 |-> Cardinality(hit1), l2 |-> i2.count, l3 |-> i3.count],
        raised |-> anyRaised,
        calls |-> (IF L1 \in levels THEN {L1} ELSE {}) \cup (IF doL2 THEN {L2} ELSE {})
                    \cup (IF doL3 THEN {L3} ELSE {}),
        failed |-> (IF i2.failed THEN {L2} ELSE {}) \cup (IF i3.failed THEN {L3} ELSE {})]

\* CacheOperations.warm_cache for one answer `top` of its query
WarmOutcome(top) ==
    WarmItems([i \in 1..Len(top) |-> l3[top[i]]], l1, max_size, l2, l2_enabled, now, redis_up, 0)


---------------------------------------------------------------------------
(* State machine of the engine, one action per public operation.           *)

ZeroStats == [hits |-> 0, misses |-> 0, sets |-> 0, evictions |-> 0,
              l1_hits |-> 0, l2_hits |-> 0, l3_hits |-> 0,
              l1_misses |-> 0, l2_misses |-> 0, l3_misses |-> 0]

NoOp == [op |-> "none", key |-> << >>, value |-> None, ttl |-> 0, at |-> 0,
         result |-> None, served |-> "none", calls |-> {}, failed |-> {},
         raised |-> FALSE, l1_found |-> "absent", evicted |-> {}, count |-> 0,
         removed |-> [l1 |-> 0, l2 |-> 0, l3 |-> 0]]

Patterns == { <<"e">> }
CT == "generic"

Forget(w, ks) == [k \in DOMAIN w \ ks |-> w[k]]
\* set(k, v, ttl) at t wrote Tier 1 with l1ttl
Wrote(w, k, v, t, ttl, l1ttl) ==
    (k :> [value |-> v, at |-> t, ttl |-> ttl, l1_ttl |-> l1ttl,
           promoted |-> "none", p_at |-> 0, p_ttl |-> 0]) @@ w
\* a get at t promoted k from `tier` into Tier 1 with l1ttl
Promoted(w, k, tier, t, l1ttl) ==
    IF k \in DOMAIN w
    THEN [w EXCEPT ![k] = [@ EXCEPT !.promoted = tier, !.p_at = t, !.p_ttl = l1ttl]]
    ELSE w

\* __init__: empty tiers; l2_enabled and l3_enabled as configuration and the Redis
\* ping decide them
InitEngine ==
    /\ l1 = << >>
    /\ max_size = 1
    /\ l2 = << >>
    /\ l3 = << >>
    /\ access_patterns = << >>
    /\ stats = ZeroStats
    /\ l2_enabled \in BOOLEAN
    /\ l3_enabled \in BOOLEAN
    /\ redis_up = TRUE
    /\ db_up = TRUE
    /\ now = 0
    /\ touched = << >>
    /\ last = NoOp
    /\ written = << >>

Init ==
    /\ InitEngine
    /\ budget = MaxOps
    /\ thr = << >>
    /\ calc = << >>
    /\ ProcessIdle

Get(k) ==
    /\ budget > 0
    /\ LET o == GetOutcome(k, CT)
       IN /\ l1' = o.l1
          /\ l2' = o.l2
          /\ l3' = o.l3
          /\ access_patterns' = o.patterns
          /\ stats' = o.stats
          /\ last' = [NoOp EXCEPT !.op = "get", !.key = k, !.at = now,
                                  !.result = o.result, !.served = o.served,
                                  !.calls = o.calls, !.failed = o.failed,
                                  !.raised = o.raised, !.l1_found = o.l1_found,
                                  !.evicted = o.evicted]
          /\ written' =
               LET w == Forget(written, o.evicted)
               IN IF o.served \in {L2, L3}
                  THEN Promoted(w, k, o.served, now, EntryOf(o.l1, k).ttl)
                  ELSE w
    /\ budget' = budget - 1
    /\ UNCHANGED << max_size, l2_enabled, l3_enabled, redis_up, db_up, now, touched, thr, calc, process >>

Set(k, v, ttl) ==
    /\ budget > 0
    /\ LET o == SetOutcome(k, v, ttl, CT, DefaultSetLevels)
       IN /\ l1' = o.l1
          /\ l2' = o.l2
          /\ l3' = o.l3
          /\ access_patterns' = o.patterns
          /\ stats' = o.stats
          /\ last' = [NoOp EXCEPT !.op = "set", !.key = k, !.value = v, !.ttl = ttl,
                                  !.at = now, !.result = o.result, !.calls = o.calls,
                                  !.failed = o.failed, !.raised = o.raised,
                                  !.evicted = o.evicted]
          /\ written' = Wrote(Forget(written, o.evicted), k, v, now, ttl, o.l1_ttl)
    /\ budget' = budget - 1
    /\ UNCHANGED << max_size, l2_enabled, l3_enabled, redis_up, db_up, now, touched, thr, calc, process >>

Delete(k) ==
    /\ budget > 0
    /\ budget' = budget - 1
    /\ LET o == DeleteOutcome(k, AllLevels)
       IN /\ l1' = o.l1
          /\ l2' = o.l2
          /\ l3' = o.l3
          /\ l3_enabled' = o.l3_enabled
          /\ last' = [NoOp EXCEPT !.op = "delete", !.key = k, !.at = now,
                                  !.result = o.result, !.calls = o.calls,
                                  !.failed = o.failed, !.raised = o.raised]
    /\ written' = Forget(written, {k})
    /\ UNCHANGED << max_size, access_patterns, stats, l2_enabled, redis_up, db_up, now,
                    touched, thr, calc, process >>

InvalidatePattern(p) ==
    /\ budget > 0
    /\ budget' = budget - 1
    /\ LET o == InvalidateOutcome(p, AllLevels)
       IN /\ l1' = o.l1
          /\ l2' = o.l2
          /\ l3' = o.l3
          /\ l3_enabled' = o.l3_enabled
          /\ last' = [NoOp EXCEPT !.op = "invalidate", !.key = p, !.at = now,
                                  !.count = o.count, !.calls = o.calls,
                                  !.failed = o.failed, !.raised = o.raised,
                                  !.removed = o.removed]
          /\ written' = Forget(written, { k \in DOMAIN written : IsSubstring(p, k) })
    /\ UNCHANGED << max_size, access_patterns, stats, l2_enabled, redis_up, db_up, now,
                    touched, thr, calc, process >>

\* warm_cache_now, and one pass of _cache_warming_worker
WarmCache ==
    /\ budget > 0
    /\ budget' = budget - 1
    /\ IF l3_enabled /\ db_up
       THEN \E top \in TopItems(l3, now, WARMING_TOP_N) :
              LET o == WarmOutcome(top)
                  ks == { l3[top[i]].cache_key : i \in 1..Len(top) }
              IN /\ l1' = o.l1
                 /\ l2' = o.l2
                 /\ l3' = WarmQueryRows(l3, top)
                 /\ last' = [NoOp EXCEPT !.op = "warm", !.at = now, !.count = o.count,
                                         !.evicted = SeqKeys(l1) \ SeqKeys(o.l1)]
                 /\ written' = Forget(written, ks \cup (SeqKeys(l1) \ SeqKeys(o.l1)))
       ELSE /\ UNCHANGED << l1, l2, l3, written >>
            /\ last' = [NoOp EXCEPT !.op = "warm", !.at = now,
                                    !.failed = IF l3_enabled THEN {L3} ELSE {}]
    /\ UNCHANGED << max_size, access_patterns, stats, l2_enabled, l3_enabled, redis_up, db_up,
                    now, touched, thr, calc, process >>

\* the clock advances
Tick(d) ==
    /\ budget > 0
    /\ now' = now + d
    /\ budget' = budget - 1
    /\ UNCHANGED << l1, max_size, l2, l3, access_patterns, stats, l2_enabled, l3_enabled,
                    redis_up, db_up, touched, last, written, thr, calc, process >>

\* the Redis server becomes unreachable, or reachable again
RedisFlip ==
    /\ budget > 0
    /\ budget' = budget - 1
    /\ l2_enabled
    /\ redis_up' = ~redis_up
    /\ UNCHANGED << l1, max_size, l2, l3, access_patterns, stats, l2_enabled, l3_enabled,
                    db_up, now, touched, last, written, thr, calc, process >>

\* the database becomes unreachable, or reachable again
DbFlip ==
    /\ budget > 0
    /\ budget' = budget - 1
    /\ l3_enabled
    /\ db_up' = ~db_up
    /\ UNCHANGED << l1, max_size, l2, l3, access_patterns, stats, l2_enabled, l3_enabled,
                    redis_up, now, touched, last, written, thr, calc, process >>

Next ==
    \/ \E k \in Keys : Get(k)
    \/ \E k \in Keys, a \in SetArgs : Set(k, a[1], a[2])
    \/ \E k \in Keys : Delete(k)
    \/ \E p \in Patterns : InvalidatePattern(p)
    \/ WarmCache
    \/ \E d \in TickSteps : Tick(d)
    \/ RedisFlip
    \/ DbFlip

Spec == Init /\ [][Next]_vars


---------------------------------------------------------------------------
(* State machine of the Entry Store alone: the LRUCache methods called     *)
(* directly, on a store of capacity 1..MaxCapacity that already holds any  *)
(* number of entries written at time 0.                                    *)

\* the sequences of distinct keys of length n
DistinctSeqs(S, n) == { q \in [1..n -> S] : \A i, j \in 1..n : i # j => q[i] # q[j] }

InitStore ==
    /\ max_size \in 1..MaxCapacity
    /\ \E n \in 0..max_size : \E q \in DistinctSeqs(StoreKeys, n) :
          /\ l1 = [i \in 1..n |-> NewEntry(q[i], "v1", L1_DEFAULT_TTL, CT, 0)]
          /\ touched = q
    /\ l2 = << >>
    /\ l3 = << >>
    /\ access_patterns = << >>
    /\ stats = ZeroStats
    /\ l2_enabled = FALSE
    /\ l3_enabled = FALSE
    /\ redis_up = TRUE
    /\ db_up = TRUE
    /\ now = 0
    /\ last = NoOp
    /\ written = << >>
    /\ budget = MaxStoreOps
    /\ thr = << >>
    /\ calc = << >>
    /\ ProcessIdle

StoreFrame ==
    UNCHANGED << max_size, l2, l3, access_patterns, stats, l2_enabled, l3_enabled,
                 redis_up, db_up, written, thr, calc, process >>

StoreGet(k) ==
    /\ budget > 0
    /\ budget' = budget - 1
    /\ LET r == L1Get(l1, k, now)
       IN /\ l1' = r.cache
          /\ touched' = IF r.value # None THEN Touch(touched, k) ELSE touched
          /\ last' = [NoOp EXCEPT !.op = "l1get", !.key = k, !.at = now,
                                  !.result = r.value, !.l1_found = L1Found(l1, k, now)]
    /\ UNCHANGED now
    /\ StoreFrame

StoreSet(k, v) ==
    /\ budget > 0
    /\ budget' = budget - 1
    /\ LET c == L1Set(l1, max_size, k, v, L1_DEFAULT_TTL, CT, now)
       IN /\ l1' = c
          /\ last' = [NoOp EXCEPT !.op = "l1set", !.key = k, !.value = v, !.at = now,
                                  !.result = "True", !.evicted = Evicted(l1, k, c)]
    /\ touched' = Touch(touched, k)
    /\ UNCHANGED now
    /\ StoreFrame

StoreDelete(k) ==
    /\ budget > 0
    /\ budget' = budget - 1
    /\ LET d == L1Delete(l1, k)
       IN /\ l1' = d.cache
          /\ last' = [NoOp EXCEPT !.op = "l1delete", !.key = k, !.at = now,
                                  !.result = IF d.ok THEN "True" ELSE "False"]
    /\ UNCHANGED << now, touched >>
    /\ StoreFrame

StoreClear ==
    /\ budget > 0
    /\ budget' = budget - 1
    /\ LET c == L1Clear(l1)
       IN /\ l1' = c.cache
          /\ last' = [NoOp EXCEPT !.op = "l1clear", !.at = now, !.count = c.count]
    /\ UNCHANGED << now, touched >>
    /\ StoreFrame

StoreTick ==
    /\ budget > 0
    /\ budget' = budget - 1
    /\ now' = now + L1_DEFAULT_TTL + 1
    /\ UNCHANGED << l1, touched, last >>
    /\ StoreFrame

NextStore ==
    \/ \E k \in StoreKeys : StoreGet(k)
    \/ \E k \in StoreKeys, v \in Values : StoreSet(k, v)
    \/ \E k \in StoreKeys : StoreDelete(k)
    \/ StoreClear
    \/ StoreTick

SpecStore == InitStore /\ [][NextStore]_vars

---------------------------------------------------------------------------
(* C3: Tier-1 LRU eviction.                                                *)

Pos(order, k) == CHOOSE i \in 1..Len(order) : order[i] = k

\* the key of the store whose last touch (successful get, or set) is the oldest
LeastRecentlyTouched(cache, order) ==
    CHOOSE k \in SeqKeys(cache) :
        \A j \in SeqKeys(cache) : Pos(order, k) <= Pos(order, j)

\* this step is a Tier 1 set of the new key k into a full store
FullStoreSetStep(k) ==
    /\ \E v \in Values : StoreSet(k, v)
    /\ Len(l1) = max_size
    /\ ~HasKey(l1, k)

\* C3: a set of a new key into a store holding max_size keys evicts exactly one
\* key, the one least recently touched (by a successful get or a set); the
\* evicted key is then a miss and every other key keeps its value.
C3_LRUEviction ==
    [][ \A k \in StoreKeys : FullStoreSetStep(k) =>
          LET victim == LeastRecentlyTouched(l1, touched)
          IN /\ last'.evicted = {victim}
             /\ SeqKeys(l1') = (SeqKeys(l1) \ {victim}) \cup {k}
             /\ Len(l1') = max_size
             /\ L1Get(l1', victim, now').value = None
             /\ \A j \in SeqKeys(l1) \ {victim} :
                   /\ EntryOf(l1', j) = EntryOf(l1, j)
                   /\ L1Get(l1', j, now').value = L1Get(l1, j, now).value
             /\ L1Get(l1', k, now').value = last'.value ]_vars

\* a set evicted a key while an entry written before the evicted one, refreshed
\* by a get, stayed
C3_Witness ==
    /\ last.op = "l1set"
    /\ max_size = 2
    /\ Cardinality(last.evicted) = 1
    /\ \E i \in 1..Len(l1) : l1[i].key # last.key /\ l1[i].access_count > 0
    /\ \A e \in last.evicted : ~HasKey(l1, e)


---------------------------------------------------------------------------
(* Claims about the engine, under Spec.                                    *)

\* this step is a get(k)
GetStep(k) == Get(k)

L1LiveAt(cache, k, t) == HasKey(cache, k) /\ ~(t > EntryOf(cache, k).expires_at)

\* C1 as stated: after set(k, v, ttl), a get(k) before ttl seconds have elapsed
\* returns v, in every tier configuration, unless k was deleted, invalidated or
\* evicted by capacity in between.
C1_RoundTripWithinTTL ==
    (/\ last.op = "get"
     /\ last.key \in DOMAIN written
     /\ written[last.key].ttl > 0
     /\ last.at < written[last.key].at + written[last.key].ttl)
    => last.result = written[last.key].value

\* C1 amended: after set(k, v, ttl), a get(k) issued no later than the Tier 1 TTL
\* that the set wrote returns v, in every tier configuration, unless k was
\* deleted, invalidated, evicted by capacity or rewritten by a warming pass in
\* between.
C1_RoundTripWithinL1TTL ==
    (/\ last.op = "get"
     /\ last.key \in DOMAIN written
     /\ last.at <= written[last.key].at + written[last.key].l1_ttl)
    => /\ last.result = written[last.key].value
       /\ last.served = L1

\* a get some time after the set, inside the Tier 1 TTL, returned the value
C1_Witness ==
    /\ last.op = "get"
    /\ last.key \in DOMAIN written
    /\ last.at > written[last.key].at
    /\ last.at <= written[last.key].at + written[last.key].l1_ttl
    /\ last.result = written[last.key].value
    /\ last.result = "tup"

\* C2: a tier whose entry for k is past its expires_at does not serve get(k):
\* get(k) returns a value only from a tier whose entry is live, returns absent
\* when no tier holds a live entry, and leaves no expired entry for k in Tier 1.
C2_Expiry ==
    [][ \A k \in Keys : GetStep(k) =>
          /\ last'.served = L1 => L1LiveAt(l1, k, now)
          /\ last'.served = L2 => (k \in DOMAIN l2 /\ now < l2[k].expires_at)
          /\ last'.served = L3 =>
                \E i \in RowIdx(l3, k) : l3[i].expires_at > now
          /\ last'.result # None => last'.served \in {L1, L2, L3}
          /\ (HasKey(l1, k) /\ now > EntryOf(l1, k).expires_at) =>
                /\ \A i \in 1..Len(l1') : l1'[i].key = k => l1'[i].created_at = now
                /\ last'.served # L1
          /\ HasKey(l1', k) => ~(now > EntryOf(l1', k).expires_at) ]_vars

\* get found the Tier 1 entry expired and removed it, and reported absent while
\* Tier 3 still holds the expired row
C2_Witness ==
    /\ last.op = "get"
    /\ last.result = None
    /\ last.l1_found = "expired"
    /\ ~HasKey(l1, last.key)
    /\ L3 \in last.calls
    /\ \E i \in RowIdx(l3, last.key) : l3[i].expires_at < last.at

\* C5 as stated: set reports success whenever its Tier 1 write succeeded, even if
\* the Tier 2 or the Tier 3 write of the call failed.
C5_DegradedSuccess ==
    (last.op = "set" /\ L1 \in last.calls) => last.result = "True"

C7_Tier2Degraded ==
    [][ \A k \in Keys : (GetStep(k) /\ (~l2_enabled \/ ~redis_up)) =>
          /\ L1LiveAt(l1, k, now) =>
                /\ last'.result = EntryOf(l1, k).value
                /\ last'.served = L1
                /\ last'.calls = {L1}
          /\ (~L1LiveAt(l1, k, now) /\ l3_enabled /\ db_up
                /\ LiveRowIdx(l3, k, now) # {}) =>
                /\ last'.result = JsonLoads(l3[FirstOf(LiveRowIdx(l3, k, now))].cache_value)
                /\ last'.served = L3
                /\ L1LiveAt(l1', k, now)
                /\ EntryOf(l1', k).value = last'.result ]_vars

\* with Tier 2 failing, a get was served by Tier 3 and promoted into Tier 1
C7_Witness ==
    /\ last.op = "get"
    /\ last.served = L3
    /\ L2 \in last.failed
    /\ HasKey(l1, last.key)
    /\ EntryOf(l1, last.key).value = last.result

RowCount(rows, k) == Cardinality(RowIdx(rows, k))

\* C8: once a get(k) was served by Tier 3 and promoted k, every get(k) while the
\* promoted Tier 1 entry is live and in place is served by Tier 1 without a
\* Tier 3 query; no get changes the number of Tier 3 rows of any key, which is
\* one for a promoted key.
C8_PromotionIdempotent ==
    [][ \A k \in Keys : GetStep(k) =>
          /\ \A j \in Keys : RowCount(l3', j) = RowCount(l3, j)
          /\ last'.served = L3 =>
                /\ RowCount(l3', k) = 1
                /\ L1LiveAt(l1', k, now)
          /\ (/\ k \in DOMAIN written
              /\ written[k].promoted = L3
              /\ now <= written[k].p_at + written[k].p_ttl) =>
                /\ last'.served = L1
                /\ L3 \notin last'.calls
                /\ l3' = l3 ]_vars

\* a get was served by Tier 1 from the entry an earlier get promoted from Tier 3
C8_Witness ==
    /\ last.op = "get"
    /\ last.served = L1
    /\ last.key \in DOMAIN written
    /\ written[last.key].promoted = L3
    /\ last.at > written[last.key].at
    /\ RowCount(l3, last.key) = 1

---------------------------------------------------------------------------
(* The Adaptive TTL Calculator on its own: the tracker counts accesses and *)
(* the calculator is asked for TTLs.                                       *)

TTLKeys == { <<"h">>, <<"c">> }
BaseTTLs == { 30, 61, 300, 3601, 40000, 86400, 100000 }

NoCalc == [op |-> "none", key |-> << >>, base_ttl |-> 0, count |-> 0, ttl |-> 0]

InitTTL ==
    /\ InitEngine
    /\ budget = 0
    /\ thr = << >>
    /\ calc = NoCalc
    /\ ProcessIdle

TTLFrame ==
    UNCHANGED << l1, max_size, l2, l3, stats, l2_enabled, l3_enabled, redis_up, db_up,
                 now, budget, touched, last, written, thr, process >>

\* _update_access_pattern(k, cache_type)
TTLAccess(k) ==
    /\ PatternsLookup(access_patterns, k)[k].access_count < MaxCount
    /\ access_patterns' = UpdateAccessPattern(access_patterns, k, now)
    /\ calc' = [NoCalc EXCEPT !.op = "access", !.key = k]
    /\ TTLFrame

\* _calculate_adaptive_ttl(k, base_ttl, cache_type)
TTLCalculate(k, base_ttl) ==
    /\ LET c == CalculateAdaptiveTTL(access_patterns, k, base_ttl)
       IN /\ access_patterns' = c.patterns
          /\ calc' = [op |-> "calc", key |-> k, base_ttl |-> base_ttl,
                      count |-> c.patterns[k].access_count, ttl |-> c.ttl]
    /\ TTLFrame

NextTTL ==
    \/ \E k \in TTLKeys : TTLAccess(k)
    \/ \E k \in TTLKeys, b \in BaseTTLs : TTLCalculate(k, b)

SpecTTL == InitTTL /\ [][NextTTL]_vars

\* TTL_MULTIPLIER_DEN times the value the stated formula gives, in exact arithmetic
StatedTimesDen(c, base_ttl) ==
    Max(TTL_MULTIPLIER_DEN * MIN_TTL,
        Min(TTL_MULTIPLIER_DEN * MAX_TTL,
            IF c > 10 THEN base_ttl * TTL_MULTIPLIER_NUM * 2
            ELSE IF c > 5 THEN base_ttl * TTL_MULTIPLIER_NUM
            ELSE base_ttl * TTL_MULTIPLIER_DEN))

\* C9 as stated: the calculator returns clamp(base_ttl * multiplier * 2) when
\* access_count > 10, clamp(base_ttl * multiplier) when 5 < access_count <= 10 and
\* clamp(base_ttl) otherwise.
C9_AdaptiveTTLValue ==
    calc.op = "calc" =>
        TTL_MULTIPLIER_DEN * calc.ttl = StatedTimesDen(calc.count, calc.base_ttl)

\* the integer part of n / TTL_MULTIPLIER_DEN for n >= 0
Truncated(n) == n \div TTL_MULTIPLIER_DEN

\* C9 amended: the calculator returns clamp(int(base_ttl * multiplier * 2)) when
\* access_count > 10, clamp(int(base_ttl * multiplier)) when 5 < access_count <= 10
\* and clamp(base_ttl) otherwise, the product being truncated to an integer
\* before it is clamped to [MIN_TTL, MAX_TTL].
C9_AdaptiveTTLTruncated ==
    calc.op = "calc" =>
        LET x == IF calc.count > 10
                 THEN Truncated(calc.base_ttl * TTL_MULTIPLIER_NUM * 2)
                 ELSE IF calc.count > 5
                      THEN Truncated(calc.base_ttl * TTL_MULTIPLIER_NUM)
                      ELSE calc.base_ttl
        IN calc.ttl = (IF x < MIN_TTL THEN MIN_TTL ELSE IF x > MAX_TTL THEN MAX_TTL ELSE x)

\* the scenario of the specification: 12 accesses, base 300 gives 900
C9_Witness ==
    /\ calc.op = "calc"
    /\ calc.count = 12
    /\ calc.base_ttl = 300
    /\ calc.ttl = 900

\* C10: for a fixed key and base_ttl the TTL the calculator returns does not
\* decrease as access_count grows, and every TTL it returns lies within
\* [MIN_TTL, MAX_TTL].
C10_MonotoneAndBounded ==
    [][ \A k \in TTLKeys, b \in BaseTTLs : TTLCalculate(k, b) =>
          /\ MIN_TTL <= calc'.ttl /\ calc'.ttl <= MAX_TTL
          /\ \A b0 \in BaseTTLs, c0 \in 0..calc'.count :
                LET before == CalculateAdaptiveTTL((k :> [DefaultPattern EXCEPT
                                                            !.access_count = c0]), k, b0).ttl
                    after == CalculateAdaptiveTTL((k :> [DefaultPattern EXCEPT
                                                           !.access_count = calc'.count]),
                                                  k, b0).ttl
                IN before <= after
          /\ (calc.op = "calc" /\ calc.key = k /\ calc.base_ttl = b
                /\ calc.count <= calc'.count) => calc.ttl <= calc'.ttl ]_vars

\* a key crossed both thresholds: a TTL asked at count 11 is larger than what the
\* same base gave before, and a large base is held at MAX_TTL
C10_Witness ==
    /\ calc.op = "calc"
    /\ calc.count > 10
    /\ calc.base_ttl = 40000
    /\ calc.ttl = MAX_TTL

---------------------------------------------------------------------------
(* Concurrent use of one engine: a caller thread issuing set and get on    *)
(* one key, another thread issuing get on it, and the warming worker.      *)
(* Every step is one call into a tier (LRUCache methods hold its lock, a   *)
(* Redis command or a database transaction is atomic) together with the    *)
(* statistics and access-pattern updates around it.                        *)

KC == << "e", "x" >>
ConcValues == { "v1", "v2" }
ConcTick == L1_DEFAULT_TTL + 100
Getters == { "caller", "reader" }

\* a thread: its position, its local variables, what is left for it to do, and
\* (history) the value of the set it returned from just before, the time of
\* that set's Tier 1 write, and what its get is expected to return: the value
\* of that set when the clock has not moved since the write
Thread(n) == [pc |-> "idle", val |-> None, ttl |-> 0, ok |-> TRUE, items |-> << >>,
              ops |-> n, op |-> "none", result |-> None,
              prev |-> None, prev_at |-> NoTime, expect |-> None]

InitConc ==
    /\ InitEngine
    /\ budget = MaxConcTicks
    /\ calc = << >>
    /\ ProcessIdle
    /\ thr = [caller |-> Thread(MaxCallerOps), reader |-> Thread(MaxReads),
              warmer |-> Thread(MaxWarmPasses)]

ConcFrame == UNCHANGED << max_size, l2_enabled, l3_enabled, redis_up, db_up, touched,
                          last, written, calc, process >>

\* the thread returns `r` from `op`
Return(th, op, r) ==
    [th EXCEPT !.pc = "idle", !.ops = @ - 1, !.op = op, !.result = r, !.val = None,
               !.items = << >>]

\* set(KC, v): adaptive TTL, then the Tier 1 write
ConcSetL1(v) ==
    /\ thr.caller.pc = "idle" /\ thr.caller.ops > 0
    /\ LET c == CalculateAdaptiveTTL(access_patterns, KC, L2_DEFAULT_TTL)
       IN /\ access_patterns' = c.patterns
          /\ l1' = L1Set(l1, max_size, KC, v, SetL1TTL(c.ttl), CT, now)
          /\ thr' = [thr EXCEPT !.caller = [@ EXCEPT !.pc = "set_l2", !.val = v,
                                                      !.ttl = c.ttl, !.ok = TRUE,
                                                      !.prev = None, !.prev_at = now,
                                                      !.expect = None]]
    /\ UNCHANGED << l2, l3, stats, now, budget >>
    /\ ConcFrame

\* set: the Tier 2 write
ConcSetL2 ==
    /\ thr.caller.pc = "set_l2"
    /\ LET w == IF l2_enabled
                THEN SetToL2(l2, KC, thr.caller.val, thr.caller.ttl, now, redis_up)
                ELSE [store |-> l2, ok |-> TRUE, failed |-> FALSE, raised |-> FALSE]
       IN /\ l2' = w.store
          /\ thr' = [thr EXCEPT !.caller = [@ EXCEPT !.pc = "set_l3",
                                                      !.ok = w.ok /\ @]]
    /\ UNCHANGED << l1, l3, access_patterns, stats, now, budget >>
    /\ ConcFrame

\* set: the Tier 3 write, the sets counter, return
ConcSetL3 ==
    /\ thr.caller.pc = "set_l3"
    /\ LET w == IF l3_enabled
                THEN SetToL3(l3, KC, thr.caller.val, SetL3TTL(thr.caller.ttl), CT, now, db_up)
                ELSE [rows |-> l3, ok |-> TRUE, failed |-> FALSE, raised |-> FALSE]
           ok == w.ok /\ thr.caller.ok
       IN /\ l3' = w.rows
          /\ stats' = IF ok THEN [stats EXCEPT !.sets = @ + 1] ELSE stats
          /\ thr' = [thr EXCEPT !.caller =
                       [Return(@, "set", IF ok THEN "True" ELSE "False")
                          EXCEPT !.prev = thr.caller.val]]
    /\ UNCHANGED << l1, l2, access_patterns, now, budget >>
    /\ ConcFrame

\* get(KC): the Tier 1 lookup; a hit returns
ConcGetL1(t) ==
    /\ thr[t].pc = "idle" /\ thr[t].ops > 0
    /\ LET r == L1Get(l1, KC, now)
           expect == IF thr[t].prev # None /\ thr[t].prev_at = now
                     THEN thr[t].prev ELSE None
       IN /\ l1' = r.cache
          /\ IF r.value # None
             THEN /\ stats' = [stats EXCEPT !.hits = @ + 1, !.l1_hits = @ + 1]
                  /\ access_patterns' = UpdateAccessPattern(access_patterns, KC, now)
                  /\ thr' = [thr EXCEPT ![t] = [Return(@, "get", r.value)
                                                  EXCEPT !.prev = None, !.expect = expect]]
             ELSE /\ stats' = [stats EXCEPT !.l1_misses = @ + 1]
                  /\ access_patterns' = access_patterns
                  /\ thr' = [thr EXCEPT ![t] = [@ EXCEPT !.pc = "get_l2", !.prev = None,
                                                        !.expect = expect]]
    /\ UNCHANGED << l2, l3, now, budget >>
    /\ ConcFrame

\* a Tier 2 lookup that counts an l2 miss only when Tier 2 is enabled
ConcGetL2CountingEnabledOnly(t) ==
    /\ thr[t].pc = "get_l2"
    /\ LET r == IF l2_enabled THEN GetFromL2(l2, KC, now, redis_up)
                ELSE [value |-> None, failed |-> FALSE, raised |-> FALSE]
       IN IF r.value # None
          THEN /\ thr' = [thr EXCEPT ![t] = [@ EXCEPT !.pc = "promote_l2", !.val = r.value]]
               /\ stats' = stats
          ELSE /\ thr' = [thr EXCEPT ![t] = [@ EXCEPT !.pc = "get_l3"]]
               /\ stats' = IF l2_enabled THEN [stats EXCEPT !.l2_misses = @ + 1] ELSE stats
    /\ UNCHANGED << l1, l2, l3, access_patterns, now, budget >>
    /\ ConcFrame

\* get: the Tier 2 lookup
ConcGetL2(t) ==
    /\ thr[t].pc = "get_l2"
    /\ LET r == IF l2_enabled THEN GetFromL2(l2, KC, now, redis_up)
                ELSE [value |-> None, failed |-> FALSE, raised |-> FALSE]
       IN IF r.value # None
          THEN /\ thr' = [thr EXCEPT ![t] = [@ EXCEPT !.pc = "promote_l2", !.val = r.value]]
               /\ stats' = stats
          ELSE /\ thr' = [thr EXCEPT ![t] = [@ EXCEPT !.pc = "get_l3"]]
               /\ stats' = [stats EXCEPT !.l2_misses = @ + 1]
    /\ UNCHANGED << l1, l2, l3, access_patterns, now, budget >>
    /\ ConcFrame

\* get: promotion of the Tier 2 value into Tier 1, return
ConcPromoteL2(t) ==
    /\ thr[t].pc = "promote_l2"
    /\ LET c == CalculateAdaptiveTTL(access_patterns, KC, L1_DEFAULT_TTL)
       IN /\ l1' = L1Set(l1, max_size, KC, thr[t].val, c.ttl, CT, now)
          /\ access_patterns' = UpdateAccessPattern(c.patterns, KC, now)
    /\ stats' = [stats EXCEPT !.hits = @ + 1, !.l2_hits = @ + 1]
    /\ thr' = [thr EXCEPT ![t] = Return(@, "get", thr[t].val)]
    /\ UNCHANGED << l2, l3, now, budget >>
    /\ ConcFrame

\* get: the Tier 3 lookup; a miss returns absent
ConcGetL3(t) ==
    /\ thr[t].pc = "get_l3"
    /\ LET r == IF l3_enabled THEN GetFromL3(l3, KC, now, db_up)
                ELSE [rows |-> l3, value |-> None, failed |-> FALSE, raised |-> FALSE]
       IN /\ l3' = r.rows
          /\ IF r.value # None
             THEN /\ thr' = [thr EXCEPT ![t] = [@ EXCEPT !.pc = "promote_l3", !.val = r.value]]
                  /\ stats' = stats
             ELSE /\ thr' = [thr EXCEPT ![t] = Return(@, "get", None)]
                  /\ stats' = [stats EXCEPT !.misses = @ + 1, !.l3_misses = @ + 1]
    /\ UNCHANGED << l1, l2, access_patterns, now, budget >>
    /\ ConcFrame

\* get: promotion of the Tier 3 value into Tier 1
ConcPromoteL3(t) ==
    /\ thr[t].pc = "promote_l3"
    /\ LET ca == CalculateAdaptiveTTL(access_patterns, KC, L1_DEFAULT_TTL)
           cb == CalculateAdaptiveTTL(ca.patterns, KC, L2_DEFAULT_TTL)
       IN /\ l1' = L1Set(l1, max_size, KC, thr[t].val, ca.ttl, CT, now)
          /\ access_patterns' = cb.patterns
          /\ thr' = [thr EXCEPT ![t] = [@ EXCEPT !.pc = "promote_l3_l2", !.ttl = cb.ttl]]
    /\ UNCHANGED << l2, l3, stats, now, budget >>
    /\ ConcFrame

\* get: promotion of the Tier 3 value into Tier 2, return
ConcPromoteL3L2(t) ==
    /\ thr[t].pc = "promote_l3_l2"
    /\ l2' = IF l2_enabled
             THEN SetToL2(l2, KC, thr[t].val, thr[t].ttl, now, redis_up).store
             ELSE l2
    /\ stats' = [stats EXCEPT !.hits = @ + 1, !.l3_hits = @ + 1]
    /\ access_patterns' = UpdateAccessPattern(access_patterns, KC, now)
    /\ thr' = [thr EXCEPT ![t] = Return(@, "get", thr[t].val)]
    /\ UNCHANGED << l1, l3, now, budget >>
    /\ ConcFrame

\* warm_cache: the query for the top rows
ConcWarmQuery ==
    /\ thr.warmer.pc = "idle" /\ thr.warmer.ops > 0
    /\ IF l3_enabled /\ db_up
       THEN \E top \in TopItems(l3, now, WARMING_TOP_N) :
              /\ thr' = [thr EXCEPT !.warmer =
                           IF Len(top) = 0 THEN Return(@, "warm", None)
                           ELSE [@ EXCEPT !.pc = "warm_l1",
                                          !.items = [i \in 1..Len(top) |-> l3[top[i]]]]]
              /\ l3' = WarmQueryRows(l3, top)
       ELSE /\ thr' = [thr EXCEPT !.warmer = Return(@, "warm", None)]
            /\ l3' = l3
    /\ UNCHANGED << l1, l2, access_patterns, stats, now, budget >>
    /\ ConcFrame

\* warm_cache: the Tier 1 write of the next queried row
ConcWarmL1 ==
    /\ thr.warmer.pc = "warm_l1"
    /\ LET item == Head(thr.warmer.items)
       IN l1' = L1Set(l1, max_size, item.cache_key, JsonLoads(item.cache_value),
                      L1_DEFAULT_TTL, item.cache_type, now)
    /\ thr' = [thr EXCEPT !.warmer = [@ EXCEPT !.pc = "warm_l2"]]
    /\ UNCHANGED << l2, l3, access_patterns, stats, now, budget >>
    /\ ConcFrame

\* warm_cache: the Tier 2 write of that row; the pass ends after the last row
ConcWarmL2 ==
    /\ thr.warmer.pc = "warm_l2"
    /\ LET item == Head(thr.warmer.items)
       IN l2' = IF l2_enabled
                THEN SetToL2(l2, item.cache_key, JsonLoads(item.cache_value),
                             L2_DEFAULT_TTL, now, redis_up).store
                ELSE l2
    /\ thr' = [thr EXCEPT !.warmer =
                 IF Tail(@.items) = << >> THEN Return(@, "warm", None)
                 ELSE [@ EXCEPT !.pc = "warm_l1", !.items = Tail(@)]]
    /\ UNCHANGED << l1, l3, access_patterns, stats, now, budget >>
    /\ ConcFrame

\* the clock advances past the Tier 1 default TTL
ConcClock ==
    /\ budget > 0
    /\ budget' = budget - 1
    /\ now' = now + ConcTick
    /\ UNCHANGED << l1, l2, l3, access_patterns, stats, thr >>
    /\ ConcFrame

NextConc ==
    \/ \E v \in ConcValues : ConcSetL1(v)
    \/ ConcSetL2
    \/ ConcSetL3
    \/ \E t \in Getters : ConcGetL1(t)
    \/ \E t \in Getters : ConcGetL2(t)
    \/ \E t \in Getters : ConcPromoteL2(t)
    \/ \E t \in Getters : ConcGetL3(t)
    \/ \E t \in Getters : ConcPromoteL3(t)
    \/ \E t \in Getters : ConcPromoteL3L2(t)
    \/ ConcWarmQuery
    \/ ConcWarmL1
    \/ ConcWarmL2
    \/ ConcClock

SpecConc == InitConc /\ [][NextConc]_vars

\* C4: when the caller's set(k, v) has returned and the caller then calls get(k)
\* with no set, delete or invalidation of k by anyone else, the get returns v,
\* whatever other threads' in-flight get promotions and the warming pass do.
C4_ReadAfterWrite ==
    (/\ thr.caller.pc = "idle"
     /\ thr.caller.op = "get"
     /\ thr.caller.expect # None)
    => thr.caller.result = thr.caller.expect

---------------------------------------------------------------------------
(* The engine under sets over the whole range of TTLs: below and above     *)
(* twice the Tier 1 default, below and above the Tier 2 default, above     *)
(* MAX_TTL, and ttl=None (0).                                              *)

WideTTLs == { -5, 0, 120, 599, 600, 3601, 7200, 100000 }

InitSet ==
    /\ InitEngine
    /\ budget = MaxSetOps
    /\ thr = << >>
    /\ calc = << >>
    /\ ProcessIdle

NextSet ==
    \/ \E k \in Keys, ttl \in WideTTLs : Set(k, "v1", ttl)
    \/ \E k \in Keys : Get(k)
    \/ WarmCache

SpecSet == InitSet /\ [][NextSet]_vars

\* the adaptive TTL that set(k, v, ttl) computes in the current state
SetAdaptiveTTL(k, ttl) ==
    CalculateAdaptiveTTL(access_patterns, k, IF ttl # 0 THEN ttl ELSE L2_DEFAULT_TTL).ttl

\* C11 as stated: the TTL set writes to Tier 1 is min(adaptive_ttl, 2 x Tier 1
\* default TTL).
C11_L1TTLIsMin ==
    [][ \A k \in Keys, ttl \in WideTTLs : Set(k, "v1", ttl) =>
          EntryOf(l1', k).ttl = Min(SetAdaptiveTTL(k, ttl), 2 * L1_DEFAULT_TTL) ]_vars

\* C11 amended: the TTL set writes to Tier 1 is adaptive_ttl when adaptive_ttl is
\* below 2 x Tier 1 default TTL, and the Tier 1 default TTL otherwise; it never
\* exceeds 2 x Tier 1 default TTL.
C11_L1TTLOrDefault ==
    [][ \A k \in Keys, ttl \in WideTTLs : Set(k, "v1", ttl) =>
          LET a == SetAdaptiveTTL(k, ttl)
              e == EntryOf(l1', k)
          IN /\ a < 2 * L1_DEFAULT_TTL => e.ttl = a
             /\ a >= 2 * L1_DEFAULT_TTL => e.ttl = L1_DEFAULT_TTL
             /\ e.ttl < 2 * L1_DEFAULT_TTL
             /\ e.expires_at = now + e.ttl ]_vars

\* a set with a TTL of two hours left a Tier 1 entry with the Tier 1 default TTL
C11_Witness ==
    /\ last.op = "set"
    /\ last.ttl = 7200
    /\ HasKey(l1, last.key)
    /\ EntryOf(l1, last.key).ttl = L1_DEFAULT_TTL
    /\ EntryOf(l1, last.key).created_at = last.at

\* the Tier 3 row set(k, ...) wrote in this step
RowOf(rows, k) == rows[FirstOf(RowIdx(rows, k))]

\* C12 as stated: the TTL set writes to Tier 3 is max(adaptive_ttl, Tier 3 default
\* TTL), so a Tier 3 row never gets a TTL shorter than the Tier 3 default.
C12_L3TTLIsMax ==
    [][ \A k \in Keys, ttl \in WideTTLs : (Set(k, "v1", ttl) /\ l3_enabled /\ db_up) =>
          /\ RowOf(l3', k).expires_at - now = Max(SetAdaptiveTTL(k, ttl), L3_DEFAULT_TTL)
          /\ RowOf(l3', k).expires_at - now >= L3_DEFAULT_TTL ]_vars

\* C12 amended: the TTL set writes to Tier 3 is adaptive_ttl when adaptive_ttl is
\* above the Tier 2 default TTL, and the Tier 3 default TTL otherwise; a Tier 3
\* row never gets a TTL of the Tier 2 default or shorter.
C12_L3TTLOrDefault ==
    [][ \A k \in Keys, ttl \in WideTTLs : (Set(k, "v1", ttl) /\ l3_enabled /\ db_up) =>
          LET a == SetAdaptiveTTL(k, ttl)
              t3 == RowOf(l3', k).expires_at - now
          IN /\ a > L2_DEFAULT_TTL => t3 = a
             /\ a <= L2_DEFAULT_TTL => t3 = L3_DEFAULT_TTL
             /\ t3 > L2_DEFAULT_TTL ]_vars

\* a set with a TTL of two hours left a Tier 3 row that expires in two hours
C12_Witness ==
    /\ last.op = "set"
    /\ last.ttl = 7200
    /\ L3 \in last.calls
    /\ RowIdx(l3, last.key) # {}
    /\ RowOf(l3, last.key).expires_at = last.at + 7200

---------------------------------------------------------------------------
(* The engine under pattern invalidation: three keys that fit in Tier 1,   *)
(* two of them derived from the same input, and patterns with and without  *)
(* the wildcard characters of Redis KEYS and SQL LIKE.                     *)

\* embedding:userX:msg1, embedding:userX:msg2, other:userX, one character per part
InvKeys == { << "e", "x", "1" >>, << "e", "x", "2" >>, << "o", "x" >> }
InvPatterns == { << "e", "x" >>, << "x" >>, << "?" >>, << "_" >> }
InvCapacity == Cardinality(InvKeys)

InitInv ==
    /\ l1 = << >>
    /\ max_size = InvCapacity
    /\ l2 = << >>
    /\ l3 = << >>
    /\ access_patterns = << >>
    /\ stats = ZeroStats
    /\ l2_enabled \in BOOLEAN
    /\ l3_enabled \in BOOLEAN
    /\ redis_up = TRUE
    /\ db_up = TRUE
    /\ now = 0
    /\ touched = << >>
    /\ last = NoOp
    /\ written = << >>
    /\ budget = MaxInvOps
    /\ thr = << >>
    /\ calc = << >>
    /\ ProcessIdle

NextInv ==
    \/ \E k \in InvKeys : Set(k, "v1", 0)
    \/ \E p \in InvPatterns : InvalidatePattern(p)

SpecInv == InitInv /\ [][NextInv]_vars

\* p occurs in k as a contiguous run of characters
Contains(p, k) ==
    \E i \in 0..(Len(k) - Len(p)) : \A j \in 1..Len(p) : k[i + j] = p[j]

\* C13: invalidate_pattern(p) removes from Tier 1 exactly the keys that contain p
\* as a substring, leaves every other key and its entry untouched, and counts
\* each removed key once.
C13_L1PatternInvalidation ==
    [][ \A p \in InvPatterns : InvalidatePattern(p) =>
          LET hit == { k \in SeqKeys(l1) : Contains(p, k) }
          IN /\ SeqKeys(l1') = SeqKeys(l1) \ hit
             /\ \A k \in SeqKeys(l1) \ hit : EntryOf(l1', k) = EntryOf(l1, k)
             /\ Len(l1') = Len(l1) - Cardinality(hit)
             /\ last'.removed.l1 = Cardinality(hit) ]_vars

\* the scenario: the pattern of the common input removed the two keys derived from
\* it and left the third key in Tier 1
C13_Witness ==
    /\ last.op = "invalidate"
    /\ last.key = << "e", "x" >>
    /\ last.removed.l1 = 2
    /\ SeqKeys(l1) = { << "o", "x" >> }

\* C14: for every pattern p, wildcard characters included, invalidate_pattern(p)
\* removes from Tier 2 and from Tier 3 exactly the keys that contain p as a plain
\* substring, the key set it removes from Tier 1, and returns the total removed.
C14_UniformSubstring ==
    [][ \A p \in InvPatterns : InvalidatePattern(p) =>
          /\ l2_enabled =>
                DOMAIN l2' = { k \in DOMAIN l2 : ~Contains(p, k) }
          /\ l3_enabled =>
                { l3'[i].cache_key : i \in 1..Len(l3') } =
                   { k \in { l3[i].cache_key : i \in 1..Len(l3) } : ~Contains(p, k) }
          /\ last'.count = Cardinality({ k \in SeqKeys(l1) : Contains(p, k) })
                           + (IF l2_enabled
                              THEN Cardinality({ k \in DOMAIN l2 : Contains(p, k) }) ELSE 0)
                           + (IF l3_enabled
                              THEN Cardinality({ i \in 1..Len(l3) : Contains(p, l3[i].cache_key) })
                              ELSE 0) ]_vars

---------------------------------------------------------------------------
(* Key construction (_generate_key) and the convenience methods that cache *)
(* under generated keys. Strings are sequences of characters.              *)

HexDigits == << "0", "1", "2", "3", "4", "5", "6", "7", "8", "9",
                "a", "b", "c", "d", "e", "f" >>

\* hashlib.md5(s).hexdigest(): 32 hexadecimal digits determined by s (a stand-in
\* for the digest function: deterministic, and of the digest's shape)
Md5Hex(str) == [i \in 1..32 |-> HexDigits[((Len(str) + 7 * i) % 16) + 1]]

\* ":".join(parts)
RECURSIVE JoinColon(_)
JoinColon(parts) ==
    IF parts = << >> THEN << >>
    ELSE IF Len(parts) = 1 THEN parts[1]
    ELSE parts[1] \o << ":" >> \o JoinColon(Tail(parts))

\* _generate_key(prefix, *args) for string arguments
GenerateKey(prefix, args) ==
    LET key_string == JoinColon(<< prefix >> \o args)
    IN IF Len(key_string) > KEY_HASH_THRESHOLD
       THEN prefix \o << ":" >> \o Md5Hex(key_string)
       ELSE key_string

StrEmbedding == << "e", "m", "b", "e", "d", "d", "i", "n", "g" >>
StrLlmResponse == << "l", "l", "m", "_", "r", "e", "s", "p", "o", "n", "s", "e" >>
\* str(None) and str(0.7)
StrNone == << "N", "o", "n", "e" >>
StrTemperature == << "0", ".", "7" >>

\* get_embedding_key(text), and get_llm_response_key(user_message) with the
\* default conversation_history, system_prompt and temperature
EmbeddingKey(text) == GenerateKey(StrEmbedding, << text >>)
LlmResponseKey(user_message) ==
    GenerateKey(StrLlmResponse, << user_message, StrNone, StrNone, StrTemperature >>)

\* a message of n characters
Message(n) == [i \in 1..n |-> "u"]
\* messages: a short one, the longest llm_response input that is not hashed plus
\* one (174), and the longest embedding input that is not hashed plus one (191)
KeyInputs == { << "u", "1" >>, Message(174), Message(191) }

InitKey ==
    /\ l1 = << >>
    /\ max_size = InvCapacity
    /\ l2 = << >>
    /\ l3 = << >>
    /\ access_patterns = << >>
    /\ stats = ZeroStats
    /\ l2_enabled \in BOOLEAN
    /\ l3_enabled \in BOOLEAN
    /\ redis_up = TRUE
    /\ db_up = TRUE
    /\ now = 0
    /\ touched = << >>
    /\ last = NoOp
    /\ written = << >>
    /\ budget = MaxKeyOps
    /\ thr = << >>
    /\ calc = << >>
    /\ ProcessIdle

\* set(key, value, None, cache_type) under a generated key; calc remembers
\* (history) the input each key was generated from
CacheUnder(key, ct, input) ==
    /\ budget > 0
    /\ budget' = budget - 1
    /\ LET o == SetOutcome(key, "v1", 0, ct, DefaultSetLevels)
       IN /\ l1' = o.l1
          /\ l2' = o.l2
          /\ l3' = o.l3
          /\ access_patterns' = o.patterns
          /\ stats' = o.stats
          /\ last' = [NoOp EXCEPT !.op = "set", !.key = key, !.value = "v1", !.at = now,
                                  !.result = o.result, !.calls = o.calls,
                                  !.failed = o.failed, !.raised = o.raised,
                                  !.evicted = o.evicted]
          /\ written' = Wrote(Forget(written, o.evicted), key, "v1", now, 0, o.l1_ttl)
    /\ calc' = (key :> input) @@ calc
    /\ UNCHANGED << max_size, l2_enabled, l3_enabled, redis_up, db_up, now, touched, thr,
                    process >>

\* cache_embedding(text, embedding)
CacheEmbedding(text) == CacheUnder(EmbeddingKey(text), "embedding", text)

\* cache_llm_response(user_message, response)
CacheLlmResponse(user_message) == CacheUnder(LlmResponseKey(user_message), "llm", user_message)

\* invalidate_pattern(m) on an input
InvalidateInput(m) == InvalidatePattern(m) /\ calc' = calc

\* invalidate_llm_cache_for_user_message(user_message): the service forwards to
\* self.convenience, and CacheConvenienceMethods has no such method
InvalidateLlmCacheForUserMessage(user_message) ==
    /\ budget > 0
    /\ budget' = budget - 1
    /\ last' = [NoOp EXCEPT !.op = "invalidate_llm", !.key = user_message, !.at = now,
                            !.result = Raised, !.raised = TRUE]
    /\ UNCHANGED << l1, max_size, l2, l3, access_patterns, stats, l2_enabled, l3_enabled,
                    redis_up, db_up, now, touched, written, thr, calc, process >>

NextKey ==
    \/ \E m \in KeyInputs : CacheEmbedding(m)
    \/ \E m \in KeyInputs : CacheLlmResponse(m)
    \/ \E m \in KeyInputs : InvalidateInput(m)
    \/ \E m \in KeyInputs : InvalidateLlmCacheForUserMessage(m)

SpecKey == InitKey /\ [][NextKey]_vars

\* the keys some tier holds
HeldKeys == SeqKeys(l1) \cup DOMAIN l2 \cup { l3[i].cache_key : i \in 1..Len(l3) }

\* C15: every key generated from a logical input m contains m as a substring,
\* whatever the length of m, so that after invalidating on m no tier holds a
\* key derived from m.
C15_LogicalGrouping ==
    /\ \A k \in DOMAIN calc : Contains(calc[k], k)
    /\ last.op = "invalidate" =>
          \A k \in DOMAIN calc : calc[k] = last.key => k \notin HeldKeys

---------------------------------------------------------------------------
(* Claims about the soft disable of Tier 3, under Spec.                    *)

\* this step is a call of get, set, delete, invalidate_pattern or a warming pass
EngineCall ==
    \/ \E k \in Keys : Get(k)
    \/ \E k \in Keys, a \in SetArgs : Set(k, a[1], a[2])
    \/ \E k \in Keys : Delete(k)
    \/ \E p \in Patterns : InvalidatePattern(p)
    \/ WarmCache

\* C16: a delete(k) whose Tier 3 step fails still deletes k from Tier 1 and from
\* Tier 2, and disables Tier 3; once Tier 3 is disabled it stays disabled, and
\* no later get, set, delete, invalidate_pattern or warming pass calls Tier 3 or
\* changes its rows.
C16_DeleteCircuitBreaker ==
    [][ /\ \A k \in Keys : (Delete(k) /\ l3_enabled /\ ~db_up) =>
              /\ ~l3_enabled'
              /\ ~HasKey(l1', k)
              /\ (l2_enabled /\ redis_up) => k \notin DOMAIN l2'
              /\ l3' = l3
              /\ last'.calls = {L1, L3} \cup (IF l2_enabled THEN {L2} ELSE {})
              /\ last'.result = "False"
        /\ ~l3_enabled =>
              /\ ~l3_enabled'
              /\ l3' = l3
              /\ EngineCall => L3 \notin last'.calls
        /\ (~l3_enabled /\ WarmCache) => (l1' = l1 /\ l2' = l2) ]_vars

\* a delete whose Tier 3 step failed removed the key from Tier 1, left the row it
\* could not delete, and disabled Tier 3
C16_Witness ==
    /\ last.op = "delete"
    /\ last.failed = {L3}
    /\ ~l3_enabled
    /\ ~HasKey(l1, last.key)
    /\ RowIdx(l3, last.key) # {}
    /\ stats.sets > 0

---------------------------------------------------------------------------
(* The engine under warming: three keys, a Tier 1 capacity that may be     *)
(* smaller than the number of rows a pass writes, and rows that expire.    *)

WarmTick == L3_DEFAULT_TTL + L2_DEFAULT_TTL

InitWarm ==
    /\ l1 = << >>
    /\ max_size \in 1..MaxCapacity
    /\ l2 = << >>
    /\ l3 = << >>
    /\ access_patterns = << >>
    /\ stats = ZeroStats
    /\ l2_enabled \in BOOLEAN
    /\ l3_enabled \in BOOLEAN
    /\ redis_up = TRUE
    /\ db_up = TRUE
    /\ now = 0
    /\ touched = << >>
    /\ last = NoOp
    /\ written = << >>
    /\ budget = MaxWarmOps
    /\ thr = << >>
    /\ calc = << >>
    /\ ProcessIdle

NextWarm ==
    \/ \E k \in InvKeys : Set(k, "tup", 0)
    \/ Tick(WarmTick)
    \/ RedisFlip
    \/ WarmCache

SpecWarm == InitWarm /\ [][NextWarm]_vars

\* C17: a warming pass never deletes a Tier 3 row and never changes a field of
\* one.
C17_WarmingLeavesTier3 ==
    [][ WarmCache =>
          /\ Len(l3') = Len(l3)
          /\ \A i \in 1..Len(l3) : l3'[i] = l3[i] ]_vars

\* a warming pass promoted a row that had been written twice, and the row is as
\* the second write left it
C17_Witness ==
    /\ last.op = "warm"
    /\ last.count > 0
    /\ \E i \in 1..Len(l3) :
          /\ l3[i].access_count = 2
          /\ HasKey(l1, l3[i].cache_key)
          /\ EntryOf(l1, l3[i].cache_key).created_at = last.at
          /\ l3[i].last_accessed <= last.at

\* the rows a warming query may return in the current state: the non-expired
\* rows, most accessed first, at most WARMING_TOP_N of them
WarmAnswers ==
    LET live == { i \in 1..Len(l3) : l3[i].expires_at > now }
        m == Min(WARMING_TOP_N, Cardinality(live))
    IN { a \in [1..m -> live] :
           /\ \A i, j \in 1..m : i < j => a[i] # a[j]
           /\ \A i, j \in 1..m : i < j => l3[a[i]].access_count >= l3[a[j]].access_count
           /\ \A x \in live \ { a[i] : i \in 1..m } :
                 \A i \in 1..m : l3[a[i]].access_count >= l3[x].access_count }

\* what a pass that got the answer `a` leaves outside Tier 1: Tier 2, when it is
\* enabled and reachable, holds every returned row with the Tier 2 default TTL,
\* nothing else was written, and the pass counted the rows
WarmedOutsideL1(a) ==
    LET ks == { l3[a[i]].cache_key : i \in 1..Len(a) }
    IN /\ last'.count = Len(a)
       /\ (l2_enabled /\ redis_up) =>
             \A i \in 1..Len(a) :
                /\ l3[a[i]].cache_key \in DOMAIN l2'
                /\ l2'[l3[a[i]].cache_key] =
                      [value |-> l3[a[i]].cache_value, expires_at |-> now + L2_DEFAULT_TTL]
       /\ ~(l2_enabled /\ redis_up) => l2' = l2
       /\ \A k \in (DOMAIN l2 \cup DOMAIN l2') \ ks :
             k \in DOMAIN l2 /\ k \in DOMAIN l2' /\ l2'[k] = l2[k]
       /\ \A k \in SeqKeys(l1') \ ks : HasKey(l1, k) /\ EntryOf(l1', k) = EntryOf(l1, k)

\* row a[i] is a Tier 1 hit with its Tier 3 value, written with the Tier 1 default
WarmedInL1(a, i) ==
    LET k == l3[a[i]].cache_key
    IN /\ L1Get(l1', k, now).value = JsonLoads(l3[a[i]].cache_value)
       /\ EntryOf(l1', k).ttl = L1_DEFAULT_TTL
       /\ EntryOf(l1', k).created_at = now

\* C18 as stated: after a warming pass with Tier 3 enabled, each of the top-N
\* non-expired rows is a Tier 1 hit with its Tier 3 value, for every N and Tier 1
\* capacity, and is in Tier 2 when Tier 2 is enabled; other rows are not
\* written; with Tier 3 disabled the pass changes no tier.
C18_WarmingResult ==
    [][ WarmCache =>
          IF l3_enabled
          THEN \E a \in WarmAnswers :
                  /\ WarmedOutsideL1(a)
                  /\ \A i \in 1..Len(a) : WarmedInL1(a, i)
          ELSE l1' = l1 /\ l2' = l2 /\ l3' = l3 ]_vars

\* C18 amended: after a warming pass with Tier 3 enabled, the top-N non-expired
\* rows have been written to Tier 1 in query order, so the last
\* min(rows written, Tier 1 capacity) of them are Tier 1 hits with their Tier 3
\* value and the Tier 1 default TTL and the earlier ones are not in Tier 1, and
\* each is in Tier 2 with the Tier 2 default TTL when Tier 2 is enabled and
\* reachable; other rows are not written; with Tier 3 disabled the pass changes
\* no tier.
C18_WarmingResultWithinCapacity ==
    [][ WarmCache =>
          IF l3_enabled
          THEN \E a \in WarmAnswers :
                  /\ WarmedOutsideL1(a)
                  /\ \A i \in 1..Len(a) :
                        IF i > Len(a) - max_size
                        THEN WarmedInL1(a, i)
                        ELSE ~HasKey(l1', l3[a[i]].cache_key)
          ELSE l1' = l1 /\ l2' = l2 /\ l3' = l3 ]_vars

\* a pass over three rows wrote the two most accessed into a Tier 1 of capacity
\* two
C18_Witness ==
    /\ last.op = "warm"
    /\ last.count = 2
    /\ max_size = 2
    /\ Len(l3) = 3
    /\ Len(l1) = 2
    /\ \A i \in 1..Len(l1) : l1[i].created_at = last.at /\ l1[i].value = "lst"
    /\ \E i \in 1..Len(l3) : l3[i].access_count = 2 /\ HasKey(l1, l3[i].cache_key)
    /\ l2_enabled /\ redis_up
    /\ \A i \in 1..Len(l1) : l1[i].key \in DOMAIN l2

---------------------------------------------------------------------------
(* The accessors: two threads call get_advanced_cache_service and          *)
(* get_async_cache_service. Neither accessor takes a lock, so the test of   *)
(* the global and the construction that follows it are separate steps.     *)

Callers == {"c1", "c2"}
Accessors == {"advanced", "async"}
Sessions == {None, "session"}

\* AdvancedCacheService(db_session): the fields the accessors read and write,
\* and the warming thread _init_cache_warming starts
NewService(db_session) ==
    [db_session |-> db_session,
     l3_enabled |-> L3_ENABLED /\ db_session # None,
     warming_enabled |-> CACHE_WARMING_ENABLED,
     warming_thread |-> CACHE_WARMING_ENABLED]

\* AsyncCacheService(db_session) around the engine it constructed
NewWrapper(service) == [cache_service |-> service]

InitSingleton ==
    /\ l1 = << >>
    /\ max_size = 1
    /\ l2 = << >>
    /\ l3 = << >>
    /\ access_patterns = << >>
    /\ stats = ZeroStats
    /\ l2_enabled = FALSE
    /\ l3_enabled = FALSE
    /\ redis_up = TRUE
    /\ db_up = TRUE
    /\ now = 0
    /\ budget = 0
    /\ touched = << >>
    /\ last = NoOp
    /\ written = << >>
    /\ calc = << >>
    /\ ProcessIdle
    /\ thr = [t \in Callers |-> [pc |-> "idle", accessor |-> None, db_session |-> None,
                                 ops |-> MaxAccessorCalls, result |-> 0]]

SingletonFrame ==
    UNCHANGED << l1, max_size, l2, l3, access_patterns, stats, l2_enabled, l3_enabled,
                 redis_up, db_up, now, budget, touched, last, written, calc, lock,
                 od_state, stats_lock, patterns_lock, l3_cache_enabled >>

\* the accessor returns the object r
AccessorReturn(th, r) == [th EXCEPT !.pc = "idle", !.ops = @ - 1, !.result = r]

\* thread t enters accessor a with argument db_session
AccessorCall(t, a, db_session) ==
    /\ thr[t].pc = "idle" /\ thr[t].ops > 0
    /\ thr' = [thr EXCEPT ![t] = [@ EXCEPT !.pc = "test", !.accessor = a,
                                           !.db_session = db_session]]
    /\ UNCHANGED << advanced_cache_service, async_cache_service, instances, wrappers >>
    /\ SingletonFrame

\* `if <global> is None: ... elif db_session is not None and <engine>.db_session is
\* None: set db_session and l3_enabled`, then return when the global was set
AccessorTest(t) ==
    /\ thr[t].pc = "test"
    /\ LET g == IF thr[t].accessor = "advanced" THEN advanced_cache_service
                ELSE async_cache_service
           e == IF thr[t].accessor = "advanced" THEN g ELSE wrappers[g].cache_service
       IN IF g = 0
          THEN /\ thr' = [thr EXCEPT ![t] = [@ EXCEPT !.pc = "create"]]
               /\ instances' = instances
          ELSE /\ thr' = [thr EXCEPT ![t] = AccessorReturn(@, g)]
               /\ instances' =
                    IF thr[t].db_session # None /\ instances[e].db_session = None
                    THEN [instances EXCEPT
                            ![e] = [@ EXCEPT !.db_session = thr[t].db_session,
                                             !.l3_enabled =
                                                IF thr[t].accessor = "advanced"
                                                THEN L3_ENABLED ELSE TRUE]]
                    ELSE instances
    /\ UNCHANGED << advanced_cache_service, async_cache_service, wrappers >>
    /\ SingletonFrame

\* `<global> = AdvancedCacheService(db_session)` or
\* `<global> = AsyncCacheService(db_session)`, then return
AccessorCreate(t) ==
    /\ thr[t].pc = "create"
    /\ instances' = Append(instances, NewService(thr[t].db_session))
    /\ IF thr[t].accessor = "advanced"
       THEN /\ advanced_cache_service' = Len(instances')
            /\ thr' = [thr EXCEPT ![t] = AccessorReturn(@, Len(instances'))]
            /\ UNCHANGED << async_cache_service, wrappers >>
       ELSE /\ wrappers' = Append(wrappers, NewWrapper(Len(instances')))
            /\ async_cache_service' = Len(wrappers')
            /\ thr' = [thr EXCEPT ![t] = AccessorReturn(@, Len(wrappers'))]
            /\ UNCHANGED advanced_cache_service
    /\ SingletonFrame

NextSingleton ==
    \/ \E t \in Callers, a \in Accessors, d \in Sessions : AccessorCall(t, a, d)
    \/ \E t \in Callers : AccessorTest(t)
    \/ \E t \in Callers : AccessorCreate(t)

SpecSingleton == InitSingleton /\ [][NextSingleton]_vars

\* the warming worker threads running in the process
WarmingThreads == { i \in 1..Len(instances) : instances[i].warming_thread }

\* C19: whatever the calls to get_advanced_cache_service and
\* get_async_cache_service and however they interleave, at most one cache
\* engine instance exists and at most one warming worker thread is running.
C19_SingleWarmingTask ==
    /\ Len(instances) <= 1
    /\ Cardinality(WarmingThreads) <= 1

---------------------------------------------------------------------------
(* The Tier 1 lock: one thread runs LRUCache.set statement by statement     *)
(* under LRUCache.lock, one runs the Tier 1 part of invalidate_pattern, and *)
(* one calls LRUCache.size. od_state is the modification counter the        *)
(* OrderedDict iterator compares at every step.                            *)

InitLock ==
    /\ l1 = << >>
    /\ max_size = 1
    /\ l2 = << >>
    /\ l3 = << >>
    /\ access_patterns = << >>
    /\ stats = ZeroStats
    /\ l2_enabled = FALSE
    /\ l3_enabled = FALSE
    /\ redis_up = TRUE
    /\ db_up = TRUE
    /\ now = 0
    /\ budget = MaxLockOps
    /\ touched = << >>
    /\ last = NoOp
    /\ written = << >>
    /\ calc = << >>
    /\ ProcessIdle
    /\ thr = [writer |-> [pc |-> "idle", key |-> None, dirty |-> FALSE],
              scanner |-> [pc |-> "idle", pattern |-> None, it_state |-> 0, pos |-> 0,
                           more |-> FALSE, keys_to_delete |-> << >>, count |-> 0,
                           raised |-> FALSE],
              sizer |-> [calls |-> 0, result |-> 0, during |-> FALSE]]

LockFrame ==
    UNCHANGED << max_size, l2, l3, access_patterns, stats, l2_enabled, l3_enabled,
                 redis_up, db_up, now, touched, last, written, calc,
                 advanced_cache_service, async_cache_service, instances, wrappers,
                 stats_lock, patterns_lock, l3_cache_enabled >>

\* LRUCache.set(k, ...): `with self.lock`
LockSetAcquire(k) ==
    /\ thr.writer.pc = "idle" /\ budget > 0 /\ lock = None
    /\ lock' = "writer"
    /\ budget' = budget - 1
    /\ thr' = [thr EXCEPT !.writer = [@ EXCEPT !.pc = "remove", !.key = k]]
    /\ UNCHANGED << l1, od_state >>
    /\ LockFrame

\* `if key in self.cache: del self.cache[key]`
LockSetRemove ==
    /\ thr.writer.pc = "remove"
    /\ IF HasKey(l1, thr.writer.key)
       THEN /\ l1' = RemoveKey(l1, thr.writer.key)
            /\ od_state' = od_state + 1
            /\ thr' = [thr EXCEPT !.writer = [@ EXCEPT !.pc = "evict", !.dirty = TRUE]]
       ELSE /\ UNCHANGED << l1, od_state >>
            /\ thr' = [thr EXCEPT !.writer = [@ EXCEPT !.pc = "evict"]]
    /\ UNCHANGED << lock, budget >>
    /\ LockFrame

\* one test of `while len(self.cache) >= self.max_size`, and the deletion of the
\* oldest key when it holds
LockSetEvict ==
    /\ thr.writer.pc = "evict"
    /\ IF Len(l1) >= max_size
       THEN /\ l1' = Tail(l1)
            /\ od_state' = od_state + 1
            /\ thr' = [thr EXCEPT !.writer = [@ EXCEPT !.dirty = TRUE]]
       ELSE /\ UNCHANGED << l1, od_state >>
            /\ thr' = [thr EXCEPT !.writer = [@ EXCEPT !.pc = "insert"]]
    /\ UNCHANGED << lock, budget >>
    /\ LockFrame

\* `self.cache[key] = entry; return True`, leaving the `with` block
LockSetInsert ==
    /\ thr.writer.pc = "insert"
    /\ l1' = Append(l1, NewEntry(thr.writer.key, "v1", L1_DEFAULT_TTL, CT, now))
    /\ od_state' = od_state + 1
    /\ lock' = None
    /\ thr' = [thr EXCEPT !.writer = [@ EXCEPT !.pc = "idle", !.key = None,
                                               !.dirty = FALSE]]
    /\ UNCHANGED budget
    /\ LockFrame

\* invalidate_pattern(p): the iterator of `self.l1_cache.cache.keys()` is created,
\* without the lock
ScanBegin(p) ==
    /\ thr.scanner.pc = "idle" /\ budget > 0
    /\ budget' = budget - 1
    /\ thr' = [thr EXCEPT !.scanner = [@ EXCEPT !.pc = "iter", !.pattern = p,
                                                !.it_state = od_state, !.pos = 0,
                                                !.more = Len(l1) > 0,
                                                !.keys_to_delete = << >>,
                                                !.count = 0, !.raised = FALSE]]
    /\ UNCHANGED << l1, lock, od_state >>
    /\ LockFrame

\* one step of the comprehension `[k for k in ... if pattern in k]`: the iterator
\* ends when it has no current key, raises RuntimeError when the dictionary was
\* modified since it was created, and otherwise yields the next key
ScanNext ==
    /\ thr.scanner.pc = "iter"
    /\ thr' = [thr EXCEPT !.scanner =
                 IF ~@.more THEN [@ EXCEPT !.pc = "delete"]
                 ELSE IF od_state # @.it_state
                      THEN [@ EXCEPT !.pc = "idle", !.raised = TRUE]
                      ELSE LET k == l1[@.pos + 1].key
                           IN [@ EXCEPT !.pos = @ + 1,
                                        !.more = thr.scanner.pos + 1 < Len(l1),
                                        !.keys_to_delete =
                                           IF IsSubstring(thr.scanner.pattern, k)
                                           THEN Append(@, k) ELSE @]]
    /\ UNCHANGED << l1, lock, od_state, budget >>
    /\ LockFrame

\* one iteration of `for key in keys_to_delete: if self.l1_cache.delete(key):
\* count += 1` (delete takes and releases the lock), or the end of the loop
ScanDelete ==
    /\ thr.scanner.pc = "delete"
    /\ IF thr.scanner.keys_to_delete = << >>
       THEN /\ thr' = [thr EXCEPT !.scanner = [@ EXCEPT !.pc = "idle"]]
            /\ UNCHANGED << l1, od_state >>
       ELSE /\ lock = None
            /\ LET d == L1Delete(l1, Head(thr.scanner.keys_to_delete))
               IN /\ l1' = d.cache
                  /\ od_state' = IF d.ok THEN od_state + 1 ELSE od_state
                  /\ thr' = [thr EXCEPT !.scanner =
                               [@ EXCEPT !.keys_to_delete = Tail(@),
                                         !.count = IF d.ok THEN @ + 1 ELSE @]]
    /\ UNCHANGED << lock, budget >>
    /\ LockFrame

\* LRUCache.size(): `return len(self.cache)`, without the lock
LockSize ==
    /\ budget > 0
    /\ budget' = budget - 1
    /\ thr' = [thr EXCEPT !.sizer = [calls |-> @.calls + 1, result |-> Len(l1),
                                     during |-> thr.writer.dirty]]
    /\ UNCHANGED << l1, lock, od_state >>
    /\ LockFrame

NextLock ==
    \/ \E k \in Keys : LockSetAcquire(k)
    \/ LockSetRemove
    \/ LockSetEvict
    \/ LockSetInsert
    \/ \E p \in Patterns : ScanBegin(p)
    \/ ScanNext
    \/ ScanDelete
    \/ LockSize

SpecLock == InitLock /\ [][NextLock]_vars

\* C20: the Tier 1 map is one critical section: no thread iterates the map or
\* reads its size while another thread is in the middle of mutating it, and so
\* no iteration finds the map modified under it.
C20_Tier1CriticalSection ==
    /\ thr.scanner.pc = "iter" => ~thr.writer.dirty
    /\ ~thr.sizer.during
    /\ ~thr.scanner.raised

---------------------------------------------------------------------------
(* Lock order: each engine operation as the sequence of lock events its    *)
(* code performs, run by two threads. An event acquires a lock, releases   *)
(* one, or is a statement that takes none (a call to Redis or the          *)
(* database, or LRUCache.size).                                            *)

LockThreads == {"t1", "t2"}
LockNames == {"lock", "stats_lock", "patterns_lock"}

\* `with <l>: ...` around statements that take no other lock
With(l) == << << "acq", l >>, << "rel", l >> >>
Io == << << "io", "-" >> >>

\* get: l1_cache.get, then by outcome a Tier 1 hit, a Tier 2 hit (promotion to
\* Tier 1), a Tier 3 hit (promotion to both) or a miss
GetScripts ==
    { With("lock") \o With("stats_lock") \o With("patterns_lock"),
      With("lock") \o With("stats_lock") \o With("patterns_lock") \o With("lock")
          \o With("stats_lock") \o With("patterns_lock"),
      With("lock") \o With("stats_lock") \o With("stats_lock") \o With("patterns_lock")
          \o With("patterns_lock") \o With("lock") \o With("stats_lock")
          \o With("patterns_lock"),
      With("lock") \o With("stats_lock") \o With("stats_lock") \o With("stats_lock") }

\* set: _calculate_adaptive_ttl, l1_cache.set, and stats.sets on success
SetScripts ==
    { With("patterns_lock") \o With("lock") \o With("stats_lock"),
      With("patterns_lock") \o With("lock") }

\* delete: l1_cache.delete, then Tier 2 and Tier 3
DeleteScripts == { With("lock") \o Io }

\* invalidate_pattern: the key scan, then l1_cache.delete per matching key
InvalidateScripts == { Io, Io \o With("lock"), Io \o With("lock") \o With("lock") }

\* a get_stats that reads the Tier 1 size under the Tier 1 lock
GetStatsScriptLockingSize ==
    << << "acq", "stats_lock" >>, << "acq", "lock" >>, << "rel", "lock" >>,
       << "rel", "stats_lock" >> >>

\* get_stats: under stats_lock it reads the counters, l1_cache.size() (which takes
\* no lock) and redis_client.info
GetStatsScript == << << "acq", "stats_lock" >> >> \o Io \o << << "rel", "stats_lock" >> >>

\* warm_cache: the query, then l1_cache.set per row
WarmScripts == { Io, Io \o With("lock"), Io \o With("lock") \o With("lock") }

Scripts ==
    GetScripts \cup SetScripts \cup DeleteScripts \cup InvalidateScripts
        \cup {GetStatsScript} \cup WarmScripts

InitLocks ==
    /\ l1 = << >>
    /\ max_size = 1
    /\ l2 = << >>
    /\ l3 = << >>
    /\ access_patterns = << >>
    /\ stats = ZeroStats
    /\ l2_enabled = FALSE
    /\ l3_enabled = FALSE
    /\ redis_up = TRUE
    /\ db_up = TRUE
    /\ now = 0
    /\ budget = 0
    /\ touched = << >>
    /\ last = NoOp
    /\ written = << >>
    /\ calc = << >>
    /\ ProcessIdle
    /\ thr = [t \in LockThreads |-> [pc |-> "idle", script |-> << >>, ops |-> MaxLockCalls]]

LocksFrame ==
    UNCHANGED << l1, max_size, l2, l3, access_patterns, stats, l2_enabled, l3_enabled,
                 redis_up, db_up, now, budget, touched, last, written, calc,
                 advanced_cache_service, async_cache_service, instances, wrappers,
                 od_state, l3_cache_enabled >>

\* the holder of lock l
Owner(l) == IF l = "lock" THEN lock ELSE IF l = "stats_lock" THEN stats_lock
            ELSE patterns_lock
Held(t) == { l \in LockNames : Owner(l) = t }

\* the three locks with l handed to w
SetOwner(l, w) ==
    /\ lock' = IF l = "lock" THEN w ELSE lock
    /\ stats_lock' = IF l = "stats_lock" THEN w ELSE stats_lock
    /\ patterns_lock' = IF l = "patterns_lock" THEN w ELSE patterns_lock

\* thread t starts an operation
OpStart(t, s) ==
    /\ thr[t].pc = "idle" /\ thr[t].ops > 0
    /\ thr' = [thr EXCEPT ![t] = [@ EXCEPT !.pc = "run", !.script = s]]
    /\ UNCHANGED << lock, stats_lock, patterns_lock >>
    /\ LocksFrame

\* entering a `with`: the thread blocks until the lock is free
Acquire(t) ==
    /\ thr[t].pc = "run" /\ thr[t].script # << >>
    /\ Head(thr[t].script)[1] = "acq"
    /\ Owner(Head(thr[t].script)[2]) = None
    /\ SetOwner(Head(thr[t].script)[2], t)
    /\ thr' = [thr EXCEPT ![t] = [@ EXCEPT !.script = Tail(@)]]
    /\ LocksFrame

\* leaving a `with`
Release(t) ==
    /\ thr[t].pc = "run" /\ thr[t].script # << >>
    /\ Head(thr[t].script)[1] = "rel"
    /\ SetOwner(Head(thr[t].script)[2], None)
    /\ thr' = [thr EXCEPT ![t] = [@ EXCEPT !.script = Tail(@)]]
    /\ LocksFrame

\* a statement that takes no lock; calls to Redis and the database return or
\* time out
IoStep(t) ==
    /\ thr[t].pc = "run" /\ thr[t].script # << >>
    /\ Head(thr[t].script)[1] = "io"
    /\ thr' = [thr EXCEPT ![t] = [@ EXCEPT !.script = Tail(@)]]
    /\ UNCHANGED << lock, stats_lock, patterns_lock >>
    /\ LocksFrame

\* the operation returns
OpReturn(t) ==
    /\ thr[t].pc = "run" /\ thr[t].script = << >>
    /\ thr' = [thr EXCEPT ![t] = [@ EXCEPT !.pc = "idle", !.ops = @ - 1]]
    /\ UNCHANGED << lock, stats_lock, patterns_lock >>
    /\ LocksFrame

ThreadStep(t) == Acquire(t) \/ Release(t) \/ IoStep(t) \/ OpReturn(t)

NextLocks ==
    \/ \E t \in LockThreads, s \in Scripts : OpStart(t, s)
    \/ \E t \in LockThreads : Acquire(t)
    \/ \E t \in LockThreads : Release(t)
    \/ \E t \in LockThreads : IoStep(t)
    \/ \E t \in LockThreads : OpReturn(t)

\* the scheduler runs every thread that can take a step
SpecLocks ==
    InitLocks /\ [][NextLocks]_vars /\ \A t \in LockThreads : WF_vars(ThreadStep(t))

\* thread t is about to take a lock while it holds another
HoldAndWait(t) ==
    /\ thr[t].pc = "run" /\ thr[t].script # << >>
    /\ Head(thr[t].script)[1] = "acq"
    /\ Held(t) # {}

\* C21: no thread ever waits for one of the three locks while holding another,
\* and every operation that starts completes.
C21_DeadlockFreedom ==
    /\ [](\A t \in LockThreads : ~HoldAndWait(t))
    /\ \A t \in LockThreads : (thr[t].pc = "run") ~> (thr[t].pc = "idle")

\* a thread is blocked on stats_lock, holding nothing, while the other thread is
\* inside get_stats
C21_Witness ==
    \E t, u \in LockThreads :
       /\ t # u
       /\ thr[t].pc = "run" /\ thr[t].script # << >>
       /\ Head(thr[t].script) = << "acq", "stats_lock" >>
       /\ Held(t) = {}
       /\ stats_lock = u
       /\ thr[u].script = << << "rel", "stats_lock" >> >>

---------------------------------------------------------------------------
(* Statistics the engine reports.                                          *)

\* C22: every capacity eviction performed by a Tier 1 set increments the
\* evictions counter that get_stats reports.
C22_EvictionMetric ==
    [][ \A k \in Keys, ttl \in WideTTLs :
          Set(k, "v1", ttl) =>
             stats'.evictions = stats.evictions + Cardinality(last'.evicted) ]_vars

---------------------------------------------------------------------------
(* The sweep of expired Tier 3 rows: the Celery task                       *)
(* cleanup_expired_cache and the schedule that would run it.               *)

SweepTask == "services.celery_tasks.cleanup_expired_cache"

\* the periodic entries of celery_app.conf: celery_config.py sets the
\* serializers, limits and task_routes, and no beat_schedule
BeatSchedule == {}

\* cleanup_expired_cache_task: delete the rows with expires_at < utcnow
CleanupExpired(rows, utcnow) == SelectSeq(rows, LAMBDA r : ~(r.expires_at < utcnow))

InitSweep ==
    /\ l1 = << >>
    /\ max_size = InvCapacity
    /\ l2 = << >>
    /\ l3 = << >>
    /\ access_patterns = << >>
    /\ stats = ZeroStats
    /\ l2_enabled = FALSE
    /\ l3_enabled = TRUE
    /\ redis_up = TRUE
    /\ db_up = TRUE
    /\ now = 0
    /\ budget = MaxSweepOps
    /\ touched = << >>
    /\ last = NoOp
    /\ written = << >>
    /\ calc = << >>
    /\ ProcessIdle
    /\ thr = << >>

\* one interval passes and the scheduler sends the tasks of its schedule
BeatTick ==
    /\ now' = Min(now + WarmTick, MaxSweepTicks * WarmTick)
    /\ l3' = IF SweepTask \in BeatSchedule THEN CleanupExpired(l3, now') ELSE l3
    /\ UNCHANGED << l1, max_size, l2, access_patterns, stats, l2_enabled, l3_enabled,
                    redis_up, db_up, budget, touched, last, written, thr, calc, process >>

NextSweep ==
    \/ \E k \in InvKeys, ttl \in {0, 7200} : Set(k, "v1", ttl)
    \/ \E k \in InvKeys : Get(k)
    \/ BeatTick

\* intervals keep passing
SpecSweep == InitSweep /\ [][NextSweep]_vars /\ WF_vars(BeatTick)

ExpiredRow(k) == \E i \in 1..Len(l3) : l3[i].cache_key = k /\ l3[i].expires_at < now

\* C23: a sweep on a recurring interval removes the Tier 3 rows whose expires_at
\* has passed, so every expired Tier 3 row is eventually removed.
C23_PeriodicSweep ==
    \A k \in InvKeys : ExpiredRow(k) ~> ~ExpiredRow(k)

---------------------------------------------------------------------------
(* Invariants of the Entry Store as the engine uses it.                    *)

\* C24: every entry held in Tier 1 has expires_at > created_at, whatever ttl
\* was passed to set (negative, None or above MAX_TTL included).
C24_ExpiresAfterCreated ==
    \A i \in 1..Len(l1) : l1[i].expires_at > l1[i].created_at

\* a set with a negative ttl left an entry that lives MIN_TTL seconds
C24_Witness ==
    /\ last.op = "set"
    /\ last.ttl < 0
    /\ HasKey(l1, last.key)
    /\ EntryOf(l1, last.key).expires_at = EntryOf(l1, last.key).created_at + MIN_TTL

\* C25: after any sequence of get, set, delete, promotion and warming
\* operations Tier 1 holds at most max_size entries.
C25_CapacityBound == Len(l1) <= max_size

\* a set into a full Tier 1 evicted an entry and Tier 1 is full again
C25_Witness ==
    /\ last.op = "set"
    /\ last.evicted # {}
    /\ Len(l1) = max_size
    /\ HasKey(l1, last.key)

---------------------------------------------------------------------------
(* The clear-cache endpoint (DELETE /cache/clear). Keys carry their cache  *)
(* type as a prefix, "e:1" and "l:1"; an absent query parameter is the     *)
(* empty string.                                                           *)

ClearKeys == { <<"e", ":", "1">>, <<"l", ":", "1">> }
ClearTypes == { <<"e">>, <<"l">> }

\* the pattern clear_cache passes to invalidate_pattern
ClearPattern(pattern, cache_type) ==
    LET p == IF cache_type # << >> /\ pattern = << >>
             THEN cache_type \o << ":", "*" >>
             ELSE pattern
    IN IF p # << >> THEN p ELSE << "*" >>

\* clear_cache(pattern, cache_type)
ClearCache(pattern, cache_type) == InvalidatePattern(ClearPattern(pattern, cache_type))

NextClear ==
    \/ \E k \in ClearKeys : Set(k, "v1", 0)
    \/ \E pattern \in { << >>, <<"1">> }, cache_type \in ClearTypes \cup { << >> } :
          ClearCache(pattern, cache_type)

SpecClear == InitInv /\ [][NextClear]_vars

\* the key carries the cache type t as its prefix
BelongsTo(k, t) == Len(k) > Len(t) /\ SubSeq(k, 1, Len(t) + 1) = t \o << ":" >>

\* C26: the clear-cache endpoint called with neither pattern nor cache_type
\* removes every entry from every enabled tier and reports the number removed;
\* called with cache_type t it removes every entry whose key belongs to t.
C26_ClearCache ==
    [][ /\ ClearCache(<< >>, << >>) =>
              /\ l1' = << >>
              /\ l2_enabled => DOMAIN l2' = {}
              /\ l3_enabled => l3' = << >>
              /\ last'.count = Len(l1)
                               + (IF l2_enabled THEN Cardinality(DOMAIN l2) ELSE 0)
                               + (IF l3_enabled THEN Len(l3) ELSE 0)
        /\ \A t \in ClearTypes :
              ClearCache(<< >>, t) =>
                 /\ \A k \in SeqKeys(l1') : ~BelongsTo(k, t)
                 /\ l2_enabled => \A k \in DOMAIN l2' : ~BelongsTo(k, t)
                 /\ l3_enabled => \A i \in 1..Len(l3') : ~BelongsTo(l3'[i].cache_key, t)
      ]_vars

---------------------------------------------------------------------------
(* Promotion: one key is written, read often enough for its adaptive TTL to *)
(* change, and read again after Tier 1, or Tier 1 and Tier 2, expired.      *)

PromoteTicks == { L1_DEFAULT_TTL + 100, L2_DEFAULT_TTL + 400 }

InitPromote ==
    /\ InitEngine
    /\ budget = MaxPromoteOps
    /\ thr = << >>
    /\ calc = << >>
    /\ ProcessIdle

NextPromote ==
    \/ Set(KC, "tup", 0)
    \/ Get(KC)
    \/ \E d \in PromoteTicks : Tick(d)

SpecPromote == InitPromote /\ [][NextPromote]_vars

\* the access count recorded for k
AccessCount(p, k) == IF k \in DOMAIN p THEN p[k].access_count ELSE 0

\* C27: a get served by Tier 2 writes the value into Tier 1 only and leaves Tier
\* 3 unchanged; a get served by Tier 3 writes it into Tier 1 and, when Tier 2 is
\* enabled, into Tier 2; the TTLs are the adaptive TTLs for the access count
\* recorded before the get, and the access count goes up by one.
C27_PromotionTargets ==
    [][ Get(KC) =>
          LET n == AccessCount(access_patterns, KC)
              promoted == /\ HasKey(l1', KC)
                          /\ EntryOf(l1', KC).value = last'.result
                          /\ EntryOf(l1', KC).created_at = now
                          /\ EntryOf(l1', KC).ttl = AdaptiveTTL(n, L1_DEFAULT_TTL)
                          /\ AccessCount(access_patterns', KC) = n + 1
          IN /\ last'.served = L2 => (promoted /\ l2' = l2 /\ l3' = l3)
             /\ last'.served = L3 =>
                   /\ promoted
                   /\ l2_enabled =>
                         /\ KC \in DOMAIN l2'
                         /\ l2'[KC] = [value |-> JsonDumps(last'.result),
                                       expires_at |-> now + AdaptiveTTL(n, L2_DEFAULT_TTL)]
                   /\ ~l2_enabled => l2' = l2 ]_vars

\* a get served by Tier 3 after six recorded accesses promoted the value to
\* Tier 1 with the raised TTL and to Tier 2
C27_Witness ==
    /\ last.op = "get"
    /\ last.served = L3
    /\ last.at # 0
    /\ AccessCount(access_patterns, KC) = 7
    /\ HasKey(l1, KC)
    /\ EntryOf(l1, KC).ttl = (L1_DEFAULT_TTL * TTL_MULTIPLIER_NUM) \div TTL_MULTIPLIER_DEN
    /\ l2_enabled
    /\ L2Live(l2, KC, now)

---------------------------------------------------------------------------
(* The Tier 3 adapter on its own: set_to_l3 and get_from_l3 against a       *)
(* database that answers, is down, or answers the query and fails the      *)
(* commit.                                                                 *)

DbOutcomes == { "ok", "down", "commit_fails" }

\* get_from_l3 by what the database does: when the commit of the access
\* statistics raises, the except clause returns None and nothing was persisted
GetFromL3Db(rows, k, t, db) ==
    IF db = "commit_fails" /\ LiveRowIdx(rows, k, t) # {}
    THEN [rows |-> rows, value |-> None, failed |-> TRUE, raised |-> FALSE]
    ELSE GetFromL3(rows, k, t, db # "down")

InitL3 ==
    /\ l1 = << >>
    /\ max_size = 1
    /\ l2 = << >>
    /\ l3 = << >>
    /\ access_patterns = << >>
    /\ stats = ZeroStats
    /\ l2_enabled = FALSE
    /\ l3_enabled = TRUE
    /\ redis_up = TRUE
    /\ db_up = TRUE
    /\ now = 0
    /\ budget = MaxL3Ops
    /\ touched = << >>
    /\ last = NoOp
    /\ written = << >>
    /\ calc = << >>
    /\ ProcessIdle
    /\ thr = << >>

L3Frame ==
    UNCHANGED << l1, max_size, l2, access_patterns, stats, l2_enabled, l3_enabled,
                 redis_up, db_up, now, touched, written, thr, calc, process >>

\* set_to_l3(db_session, k, "tup", ttl, cache_type)
L3Set(k, ttl) ==
    /\ budget > 0
    /\ budget' = budget - 1
    /\ LET w == SetToL3(l3, k, "tup", ttl, CT, now, TRUE)
       IN /\ l3' = w.rows
          /\ last' = [NoOp EXCEPT !.op = "set_to_l3", !.key = k, !.ttl = ttl, !.at = now,
                                  !.result = IF w.ok THEN "True" ELSE "False"]
    /\ L3Frame

\* get_from_l3(db_session, k)
L3Get(k, db) ==
    /\ budget > 0
    /\ budget' = budget - 1
    /\ LET r == GetFromL3Db(l3, k, now, db)
       IN /\ l3' = r.rows
          /\ last' = [NoOp EXCEPT !.op = "get_from_l3", !.key = k, !.at = now,
                                  !.result = r.value,
                                  !.failed = IF r.failed THEN {L3} ELSE {}]
    /\ L3Frame

NextL3 ==
    \/ \E k \in Keys, ttl \in {120, 7200} : L3Set(k, ttl)
    \/ \E k \in Keys, db \in DbOutcomes : L3Get(k, db)
    \/ \E d \in {400, 90000} : Tick(d)

SpecL3 == InitL3 /\ [][NextL3]_vars

\* C28: when a Tier 3 get finds a live row and persisting the updated
\* access_count/last_accessed fails, the get still returns the row's value.
C28_StatsFailureKeepsHit ==
    [][ \A k \in Keys :
          (L3Get(k, "commit_fails") /\ LiveRowIdx(l3, k, now) # {}) =>
             last'.result = JsonLoads(l3[FirstOf(LiveRowIdx(l3, k, now))].cache_value)
      ]_vars

\* C29: a Tier 3 get of a key whose row is expired returns absent and leaves
\* the row unchanged: it is neither deleted nor has its access statistics
\* updated.
C29_ExpiredRowUntouched ==
    [][ \A k \in Keys, db \in DbOutcomes :
          (/\ L3Get(k, db)
           /\ \E i \in 1..Len(l3) : l3[i].cache_key = k
           /\ \A i \in 1..Len(l3) : l3[i].cache_key = k => l3[i].expires_at <= now) =>
             /\ last'.result = None
             /\ l3' = l3 ]_vars

\* a get on an expired row answered absent and the row is still there
C29_Witness ==
    /\ last.op = "get_from_l3"
    /\ last.result = None
    /\ last.failed = {}
    /\ \E i \in RowIdx(l3, last.key) :
          /\ l3[i].expires_at < last.at
          /\ l3[i].access_count = 1

---------------------------------------------------------------------------
(* Frame of the TTL calculator, under SpecTTL.                             *)

\* C30: computing the adaptive TTL for any key, tracked or never seen, leaves
\* the Access Pattern Tracker unchanged: the same tracked keys with the same
\* access_count and last_accessed.
C30_CalculatorHasNoSideEffect ==
    [][ \A k \in TTLKeys, b \in BaseTTLs :
          TTLCalculate(k, b) =>
             /\ DOMAIN access_patterns' = DOMAIN access_patterns
             /\ \A x \in DOMAIN access_patterns : access_patterns'[x] = access_patterns[x]
      ]_vars

---------------------------------------------------------------------------
(* Lock scope: each engine operation as the sequence of lock events and    *)
(* tier calls its code performs. A call to Redis is <<"io", "l2">>, a call *)
(* to the database <<"io", "l3">>, and a Tier 1 statement outside          *)
(* LRUCache's methods (the key scan, size) <<"io", "l1">>.                 *)

IoL1 == << << "io", "l1" >> >>
IoL2 == << << "io", "l2" >> >>
IoL3 == << << "io", "l3" >> >>

\* the statements of s when the flag is set
When(flag, s) == IF flag THEN s ELSE << >>

GetOutcomes == {"l1_hit", "l2_hit", "l3_hit", "miss"}

\* get with the given outcome under the given tier flags
GetTrace(outcome, l2on, l3on) ==
    With("lock") \o
    IF outcome = "l1_hit" THEN With("stats_lock") \o With("patterns_lock")
    ELSE
        With("stats_lock") \o When(l2on, IoL2) \o
        IF outcome = "l2_hit"
        THEN With("patterns_lock") \o With("lock") \o With("stats_lock")
                 \o With("patterns_lock")
        ELSE
            With("stats_lock") \o When(l3on, IoL3) \o
            IF outcome = "l3_hit"
            THEN With("patterns_lock") \o With("patterns_lock") \o With("lock")
                     \o When(l2on, IoL2) \o With("stats_lock") \o With("patterns_lock")
            ELSE With("stats_lock")

\* the outcomes get can have under the given tier flags
GetTraces ==
    { GetTrace(o, l2on, l3on) :
        o \in GetOutcomes, l2on \in BOOLEAN, l3on \in BOOLEAN }

\* set over all three levels: the calculator, the three writes, stats.sets on
\* success
SetTrace(l2on, l3on, success) ==
    With("patterns_lock") \o With("lock") \o When(l2on, IoL2) \o When(l3on, IoL3)
        \o When(success, With("stats_lock"))

SetTraces ==
    { SetTrace(l2on, l3on, ok) : l2on \in BOOLEAN, l3on \in BOOLEAN, ok \in BOOLEAN }

\* delete over all three levels
DeleteTrace(l2on, l3on) == With("lock") \o When(l2on, IoL2) \o When(l3on, IoL3)

DeleteTraces == { DeleteTrace(l2on, l3on) : l2on \in BOOLEAN, l3on \in BOOLEAN }

\* n times the statements s
RECURSIVE Times(_, _)
Times(n, s) == IF n = 0 THEN << >> ELSE s \o Times(n - 1, s)

\* the most keys one scan or one warming pass handles here
MaxTraceKeys == 2

\* invalidate_pattern: the key scan, l1_cache.delete per matching key, then
\* Tier 2 and Tier 3
InvalidateTrace(n, l2on, l3on) ==
    IoL1 \o Times(n, With("lock")) \o When(l2on, IoL2) \o When(l3on, IoL3)

InvalidateTraces ==
    { InvalidateTrace(n, l2on, l3on) :
        n \in 0..MaxTraceKeys, l2on \in BOOLEAN, l3on \in BOOLEAN }

\* a warming loop that writes Tier 2 inside the Tier 1 critical section
WarmTraceHolding(n, l2on) ==
    IoL3 \o Times(n, << << "acq", "lock" >> >> \o When(l2on, IoL2)
                        \o << << "rel", "lock" >> >>)

\* warm_cache with Tier 3 enabled: the query, then per row l1_cache.set and
\* set_to_l2
WarmTrace(n, l2on) == IoL3 \o Times(n, With("lock") \o When(l2on, IoL2))

WarmTraces == { WarmTrace(n, l2on) : n \in 0..MaxTraceKeys, l2on \in BOOLEAN }

\* get_stats: under stats_lock it reads the counters, l1_cache.size() and, with
\* Tier 2 enabled, redis_client.info
GetStatsTrace(l2on) ==
    << << "acq", "stats_lock" >> >> \o IoL1 \o When(l2on, IoL2)
        \o << << "rel", "stats_lock" >> >>

GetStatsTraces == { GetStatsTrace(l2on) : l2on \in BOOLEAN }

\* the operations whose Tier 1 locking is in question
CascadeTraces ==
    GetTraces \cup SetTraces \cup DeleteTraces \cup InvalidateTraces \cup WarmTraces

NextHold ==
    \/ \E t \in LockThreads, s \in CascadeTraces \cup GetStatsTraces : OpStart(t, s)
    \/ \E t \in LockThreads : Acquire(t)
    \/ \E t \in LockThreads : Release(t)
    \/ \E t \in LockThreads : IoStep(t)
    \/ \E t \in LockThreads : OpReturn(t)

SpecHold == InitLocks /\ [][NextHold]_vars

\* thread t is at a call to Tier 2 or Tier 3
AtTierIo(t) ==
    /\ thr[t].pc = "run" /\ thr[t].script # << >>
    /\ Head(thr[t].script) \in { << "io", "l2" >>, << "io", "l3" >> }

\* C31: a thread that holds the Tier 1 lock is inside one LRUCache method, its
\* next event being the release, and no thread is at a Tier 2 or Tier 3 call
\* while it holds the Tier 1 lock.
C31_Tier1LockScope ==
    \A t \in LockThreads :
       /\ lock = t => /\ thr[t].script # << >>
                      /\ Head(thr[t].script) = << "rel", "lock" >>
       /\ AtTierIo(t) => lock # t

\* one thread is inside a Tier 1 method while the other, a set that has left
\* l1_cache.set, is at its Tier 2 write
C31_Witness ==
    \E t, u \in LockThreads :
       /\ t # u
       /\ lock = t
       /\ thr[u].pc = "run"
       /\ thr[u].script = IoL2 \o IoL3 \o With("stats_lock")

\* C32: no thread is at a Tier 2 or Tier 3 call while it holds the statistics
\* lock or the access-pattern lock.
C32_NoIoUnderStatsOrPatternsLock ==
    \A t \in LockThreads : AtTierIo(t) => stats_lock # t /\ patterns_lock # t

---------------------------------------------------------------------------
(* Delete under concurrency: the cache_entries table and Redis hold an     *)
(* entry for the key when the engine is constructed; the caller thread     *)
(* issues delete and get, another thread issues get, and the warming       *)
(* worker runs a pass.                                                     *)

\* the Tier 3 row and the Tier 2 entry an earlier process left for KC
StoredRows == SetToL3(<< >>, KC, "v1", L3_DEFAULT_TTL, CT, 0, TRUE).rows
StoredL2 == SetToL2(<< >>, KC, "v1", L2_DEFAULT_TTL, 0, TRUE).store

InitDel ==
    /\ l1 = << >>
    /\ max_size = 1
    /\ l2 \in { << >>, StoredL2 }
    /\ l3 = StoredRows
    /\ access_patterns = << >>
    /\ stats = ZeroStats
    /\ l2_enabled = TRUE
    /\ l3_enabled = TRUE
    /\ redis_up = TRUE
    /\ db_up = TRUE
    /\ now = 0
    /\ touched = << >>
    /\ last = NoOp
    /\ written = << >>
    /\ budget = MaxConcTicks
    /\ calc = << >>
    /\ ProcessIdle
    /\ thr = [caller |-> Thread(MaxCallerOps), reader |-> Thread(MaxReads),
              warmer |-> Thread(MaxWarmPasses)]

\* delete(KC): the Tier 1 step
ConcDeleteL1 ==
    /\ thr.caller.pc = "idle" /\ thr.caller.ops > 0
    /\ LET d == L1Delete(l1, KC)
       IN /\ l1' = d.cache
          /\ thr' = [thr EXCEPT !.caller = [@ EXCEPT !.pc = "delete_l2", !.ok = d.ok]]
    /\ UNCHANGED << l2, l3, access_patterns, stats, now, budget >>
    /\ ConcFrame

\* delete: the Tier 2 step
ConcDeleteL2 ==
    /\ thr.caller.pc = "delete_l2"
    /\ LET d == IF l2_enabled THEN DeleteFromL2(l2, KC, redis_up)
                ELSE [store |-> l2, ok |-> TRUE, failed |-> FALSE, raised |-> FALSE]
       IN /\ l2' = d.store
          /\ thr' = [thr EXCEPT !.caller = [@ EXCEPT !.pc = "delete_l3", !.ok = d.ok /\ @]]
    /\ UNCHANGED << l1, l3, access_patterns, stats, now, budget >>
    /\ ConcFrame

\* delete: the Tier 3 step, the circuit breaker, return
ConcDeleteL3 ==
    /\ thr.caller.pc = "delete_l3"
    /\ LET d == IF l3_enabled THEN DeleteFromL3(l3, KC, db_up)
                ELSE [rows |-> l3, ok |-> TRUE, failed |-> FALSE, raised |-> FALSE]
           ok == d.ok /\ thr.caller.ok
       IN /\ l3' = d.rows
          /\ l3_enabled' = DeleteBreaker(l3_enabled, d.ok)
          /\ thr' = [thr EXCEPT !.caller = Return(@, "delete", IF ok THEN "True" ELSE "False")]
    /\ UNCHANGED << l1, l2, access_patterns, stats, now, budget >>
    /\ UNCHANGED << max_size, l2_enabled, redis_up, db_up, touched, last, written, calc,
                    process >>

NextDel ==
    \/ ConcDeleteL1
    \/ ConcDeleteL2
    \/ ConcDeleteL3
    \/ \E t \in Getters : ConcGetL1(t)
    \/ \E t \in Getters : ConcGetL2(t)
    \/ \E t \in Getters : ConcPromoteL2(t)
    \/ \E t \in Getters : ConcGetL3(t)
    \/ \E t \in Getters : ConcPromoteL3(t)
    \/ \E t \in Getters : ConcPromoteL3L2(t)
    \/ ConcWarmQuery
    \/ ConcWarmL1
    \/ ConcWarmL2
    \/ ConcClock

SpecDel == InitDel /\ [][NextDel]_vars

\* C33: a get of the caller that follows its delete (the delete returned, every
\* backend answered, nobody has called set) returns absent, whatever the other
\* thread's get and the warming pass that were in flight do.
C33_DeleteDurable ==
    [][ (thr.caller.op = "delete" /\ thr'.caller.op = "get")
        => thr'.caller.result = None ]_vars

---------------------------------------------------------------------------
(* The Tier 3 circuit breaker.                                             *)

\* C34: l3_enabled goes from true to false only in a step whose Tier 3 call
\* failed; an invalidate_pattern that matches no row on a healthy database
\* leaves it true.
C34_DisabledOnlyByFailure ==
    [][ (l3_enabled /\ ~l3_enabled') => L3 \in last'.failed ]_vars

---------------------------------------------------------------------------
(* The accessors under either setting of L3_CACHE_ENABLED.                 *)

InitConfig ==
    /\ l1 = << >>
    /\ max_size = 1
    /\ l2 = << >>
    /\ l3 = << >>
    /\ access_patterns = << >>
    /\ stats = ZeroStats
    /\ l2_enabled = FALSE
    /\ l3_enabled = FALSE
    /\ redis_up = TRUE
    /\ db_up = TRUE
    /\ now = 0
    /\ budget = 0
    /\ touched = << >>
    /\ last = NoOp
    /\ written = << >>
    /\ calc = << >>
    /\ NoObjects
    /\ l3_cache_enabled \in BOOLEAN
    /\ thr = [t \in Callers |-> [pc |-> "idle", accessor |-> None, db_session |-> None,
                                 ops |-> MaxAccessorCalls, result |-> 0]]

\* every accessor call constructs an engine at most
MaxInstances == Cardinality(Callers) * MaxAccessorCalls

\* `self.l3_enabled = False` in delete (a failed Tier 3 step) and in
\* invalidate_pattern (no row deleted), on engine i
BreakerTrips(i) ==
    /\ i \in DOMAIN instances
    /\ instances[i].l3_enabled
    /\ instances' = [instances EXCEPT ![i] = [@ EXCEPT !.l3_enabled = FALSE]]
    /\ UNCHANGED << advanced_cache_service, async_cache_service, wrappers, thr >>
    /\ SingletonFrame

NextConfig ==
    \/ \E t \in Callers, a \in Accessors, d \in Sessions : AccessorCall(t, a, d)
    \/ \E t \in Callers : AccessorTest(t)
    \/ \E t \in Callers : AccessorCreate(t)
    \/ \E i \in 1..MaxInstances : BreakerTrips(i)

SpecConfig == InitConfig /\ [][NextConfig]_vars

\* C35: on every engine, Tier 3 enabled implies that the configuration enables
\* Tier 3 and that the engine holds a database session.
C35_EnabledImpliesConfigured ==
    \A i \in 1..Len(instances) :
       instances[i].l3_enabled => L3_ENABLED /\ instances[i].db_session # None

---------------------------------------------------------------------------
(* The sweep when it is run (the task sent by name, or delete_expired      *)
(* called): it compares expires_at with datetime.utcnow(), the adapters    *)
(* write and compare it with datetime.now(), the local time.               *)

\* seconds the local clock is ahead of UTC: UTC-5, UTC, UTC+7
UtcOffsets == { -18000, 0, 25200 }

\* datetime.utcnow() when datetime.now() reads t
UtcNow(t, offset) == t - offset

\* cleanup_expired_cache_task / CacheRepository.delete_expired, run once
RunCleanup(offset) ==
    /\ budget > 0
    /\ budget' = budget - 1
    /\ l3' = IF db_up THEN CleanupExpired(l3, UtcNow(now, offset)) ELSE l3
    /\ UNCHANGED << l1, max_size, l2, access_patterns, stats, l2_enabled, l3_enabled,
                    redis_up, db_up, now, touched, last, written, thr, calc, process >>

NextZone ==
    \/ \E k \in InvKeys, ttl \in {0, 7200} : Set(k, "v1", ttl)
    \/ \E k \in InvKeys : Get(k)
    \/ \E d \in {L2_DEFAULT_TTL, WarmTick} : Tick(d)
    \/ \E offset \in UtcOffsets : RunCleanup(offset)

SpecZone == InitSweep /\ [][NextZone]_vars

\* C36: whatever the offset of the local clock from UTC, a run of the sweep keeps
\* every row whose expires_at is later than the clock the Tier 3 adapter reads.
C36_SweepKeepsLiveRows ==
    [][ \A offset \in UtcOffsets :
          RunCleanup(offset) =>
             \A i \in 1..Len(l3) :
                l3[i].expires_at > now => \E j \in 1..Len(l3') : l3'[j] = l3[i] ]_vars

---------------------------------------------------------------------------
(* Statistics under concurrent gets: two threads issue get on one key the  *)
(* tables of an earlier process may hold, the warming worker runs a pass   *)
(* and the clock moves.                                                    *)

InitStats ==
    /\ l1 = << >>
    /\ max_size = 1
    /\ l2 \in { << >>, StoredL2 }
    /\ l3 \in { << >>, StoredRows }
    /\ access_patterns = << >>
    /\ stats = ZeroStats
    /\ l2_enabled \in BOOLEAN
    /\ l3_enabled \in BOOLEAN
    /\ redis_up = TRUE
    /\ db_up = TRUE
    /\ now = 0
    /\ touched = << >>
    /\ last = NoOp
    /\ written = << >>
    /\ budget = MaxConcTicks
    /\ calc = << >>
    /\ ProcessIdle
    /\ thr = [caller |-> Thread(MaxCallerOps), reader |-> Thread(MaxReads),
              warmer |-> Thread(MaxWarmPasses)]

NextStats ==
    \/ \E t \in Getters : ConcGetL1(t)
    \/ \E t \in Getters : ConcGetL2(t)
    \/ \E t \in Getters : ConcPromoteL2(t)
    \/ \E t \in Getters : ConcGetL3(t)
    \/ \E t \in Getters : ConcPromoteL3(t)
    \/ \E t \in Getters : ConcPromoteL3L2(t)
    \/ ConcWarmQuery
    \/ ConcWarmL1
    \/ ConcWarmL2
    \/ ConcClock
    \/ RedisFlip
    \/ DbFlip

SpecStats == InitStats /\ [][NextStats]_vars

\* a get has been entered and has not returned
GetInFlight == \E t \in Getters : thr[t].pc # "idle"

\* get calls that have returned (the two threads issue nothing else)
CompletedGets == (MaxCallerOps - thr.caller.ops) + (MaxReads - thr.reader.ops)

StatsFields == DOMAIN ZeroStats

\* the relations among the counters
StatsBalance ==
    /\ stats.hits = stats.l1_hits + stats.l2_hits + stats.l3_hits
    /\ stats.misses = stats.l3_misses
    /\ stats.l1_misses >= stats.l2_hits + stats.l2_misses
    /\ stats.l2_misses >= stats.l3_hits + stats.l3_misses
    /\ ~GetInFlight =>
          /\ stats.l1_misses = stats.l2_hits + stats.l2_misses
          /\ stats.l2_misses = stats.l3_hits + stats.l3_misses
          /\ stats.hits + stats.misses = CompletedGets

\* C37: hits is the sum of the per-tier hits, misses equals l3_misses, each
\* tier's misses cover what the next tier counted, with equality and
\* hits + misses = completed gets when no get is in flight; no counter decreases.
C37_StatsAccounting ==
    /\ []StatsBalance
    /\ [][ \A f \in StatsFields : stats'[f] >= stats[f] ]_vars

\* all gets have returned, some served by each tier, from both threads
C37_Witness ==
    /\ ~GetInFlight
    /\ stats.l1_hits > 0 /\ stats.l2_hits > 0 /\ stats.l3_hits > 0
    /\ thr.reader.ops = 0
    /\ CompletedGets = MaxCallerOps + MaxReads

---------------------------------------------------------------------------
(* set with an explicit levels argument.                                   *)

\* calls in one run of the specification of set with levels
MaxLevelOps == 3

InitLevels ==
    /\ InitEngine
    /\ budget = MaxLevelOps
    /\ thr = << >>
    /\ calc = << >>
    /\ ProcessIdle

\* set(k, v, levels=levels) with the default ttl
SetLevels(k, v, levels) ==
    /\ budget > 0
    /\ LET o == SetOutcome(k, v, 0, CT, levels)
       IN /\ l1' = o.l1
          /\ l2' = o.l2
          /\ l3' = o.l3
          /\ access_patterns' = o.patterns
          /\ stats' = o.stats
          /\ last' = [NoOp EXCEPT !.op = "set", !.key = k, !.value = v,
                                  !.at = now, !.result = o.result, !.calls = o.calls,
                                  !.failed = o.failed, !.raised = o.raised,
                                  !.evicted = o.evicted]
          /\ written' = IF L1 \in levels
                        THEN Wrote(Forget(written, o.evicted), k, v, now, 0, o.l1_ttl)
                        ELSE written
    /\ budget' = budget - 1
    /\ UNCHANGED << max_size, l2_enabled, l3_enabled, redis_up, db_up, now, touched, thr,
                    calc, process >>

NextLevels ==
    \/ \E k \in Keys, v \in Values, levels \in SUBSET AllLevels : SetLevels(k, v, levels)
    \/ \E k \in Keys : Get(k)
    \/ RedisFlip
    \/ DbFlip

SpecLevels == InitLevels /\ [][NextLevels]_vars

\* some tier holds v for k
StoredSomewhere(c1, store, rows, k, v) ==
    \/ HasKey(c1, k) /\ EntryOf(c1, k).value = v
    \/ k \in DOMAIN store /\ store[k].value = JsonDumps(v)
    \/ \E i \in 1..Len(rows) : rows[i].cache_key = k /\ rows[i].cache_value = JsonDumps(v)

\* C38: a set that returns True (and counts in stats.sets) leaves the value in at
\* least one tier, whatever its levels argument; a set that wrote nothing
\* returns False.
C38_SuccessMeansStored ==
    [][ \A k \in Keys, v \in Values, levels \in SUBSET AllLevels :
          SetLevels(k, v, levels) =>
             /\ last'.result = "True" => StoredSomewhere(l1', l2', l3', k, v)
             /\ stats'.sets = stats.sets + 1 => StoredSomewhere(l1', l2', l3', k, v) ]_vars

---------------------------------------------------------------------------
(* The access-pattern tracker under concurrent use: the caller thread      *)
(* issues set, get and delete on one key, another thread issues get, the   *)
(* clock moves, and the key is invalidated by pattern.                     *)

InitCount ==
    /\ l1 = << >>
    /\ max_size = 1
    /\ l2 = << >>
    /\ l3 = << >>
    /\ access_patterns = << >>
    /\ stats = ZeroStats
    /\ l2_enabled = TRUE
    /\ l3_enabled = TRUE
    /\ redis_up = TRUE
    /\ db_up = TRUE
    /\ now = 0
    /\ touched = << >>
    /\ last = NoOp
    /\ written = << >>
    /\ budget = MaxConcTicks
    /\ calc = << >>
    /\ ProcessIdle
    /\ thr = [caller |-> Thread(MaxCallerOps), reader |-> Thread(MaxReads),
              warmer |-> Thread(0)]

NextCount ==
    \/ ConcSetL1("v1")
    \/ ConcSetL2
    \/ ConcSetL3
    \/ ConcDeleteL1
    \/ ConcDeleteL2
    \/ ConcDeleteL3
    \/ \E t \in Getters : ConcGetL1(t)
    \/ \E t \in Getters : ConcGetL2(t)
    \/ \E t \in Getters : ConcPromoteL2(t)
    \/ \E t \in Getters : ConcGetL3(t)
    \/ \E t \in Getters : ConcPromoteL3(t)
    \/ \E t \in Getters : ConcPromoteL3L2(t)
    \/ ConcClock
    \/ \E p \in Patterns : InvalidatePattern(p)

SpecCount == InitCount /\ [][NextCount]_vars

\* in this step thread t returns from get with a value
HitReturned(t) ==
    /\ thr'[t].ops = thr[t].ops - 1
    /\ thr'[t].op = "get"
    /\ thr'[t].result # None

\* C39: the tracker's access_count of the key equals the number of gets of it
\* that returned a hit; each step in which a get returns a hit raises it by one,
\* and no other step (a missed get, set, delete, invalidate_pattern) changes it.
C39_AccessCountIsHits ==
    /\ [](AccessCount(access_patterns, KC) = stats.hits)
    /\ [][ AccessCount(access_patterns', KC) =
              AccessCount(access_patterns, KC)
                 + (IF \E t \in Getters : HitReturned(t) THEN 1 ELSE 0) ]_vars

\* both threads have had hits, and the key was then deleted and invalidated with
\* its count kept
C39_Witness ==
    /\ AccessCount(access_patterns, KC) >= 2
    /\ thr.reader.ops = 0 /\ thr.reader.result # None
    /\ thr.caller.pc = "idle" /\ thr.caller.op = "delete"
    /\ last.op = "invalidate"

=============================================================================
